---------------------------- MODULE Spec2Model ----------------------------
(***************************************************************************)
(* The proof-generation service of the Umbra prover (src/prover): the      *)
(* per-IP token-bucket rate limiter, the input validator, the proof cache, *)
(* the signature pre-verifier, the Groth16 prover and sanity verifier, and *)
(* the request handler that strings them together; and the resilience      *)
(* helpers of the client SDK (src/sdk), retryWithBackoff and               *)
(* CircuitBreaker.                                                         *)
(*                                                                         *)
(* Time is the server's wall clock in whole seconds.  Decimal strings are  *)
(* sequences of one-character strings, so that the validator's textual     *)
(* checks and the cache key's concatenation are computed as the code       *)
(* computes them.                                                          *)
(***************************************************************************)
EXTENDS Integers, Sequences, FiniteSets, TLC

VARIABLES
    now,            \* time.Now(), seconds
    ticks,          \* number of clock advances so far (bounds the run)
    buckets,        \* rateLimiter.buckets : ip -> TokenBucket
    cache,          \* proofCache.cache : key -> CachedProof
    provingKey,     \* package variable provingKey
    verifyingKey,   \* package variable verifyingKey
    req,            \* the in-flight generate-proof requests, one per slot
    arrivals,       \* number of generate-proof requests received so far
    allowLog,       \* history: per ip, the time and result of each Allow call
    rlCalls,        \* history: number of Allow calls recorded in allowLog
    cacheMaxSize,   \* proofCache.maxSize
    mu,             \* proofCache.mu: the goroutines holding the read lock
    gor,            \* the goroutines calling the cache directly, one record each
    apiKey,         \* os.Getenv("API_KEY") of the prover's process
    proofs,         \* the rows of the ProofDatabase's table proofs, by request_hash
    dbGot,          \* what the last call of ProofDatabase.GetProof returned
    retry,          \* one call of the SDK's retryWithBackoff
    breaker,        \* the SDK's CircuitBreaker: state, failureCount, lastFailureTime
    callers,        \* the calls of CircuitBreaker.execute in progress
    rpc,            \* the SDK's SolanaRPCFallback and the health of its endpoints
    client,         \* one ZKPaymentClient: the call of request in progress
    mw              \* the X402ZKMiddleware and the request it is handling

\* the cache's capacity and lock, and the goroutines that use them
lockVars == <<cacheMaxSize, mu, gor>>

\* the ProofDatabase
dbVars == <<proofs, dbGot>>

\* the objects of the client SDK
appVars == <<rpc, client, mw>>

sdkVars == <<retry, breaker, callers, appVars>>

\* the prover's state but for the clock
serverVars == <<buckets, cache, provingKey, verifyingKey, req, arrivals, allowLog,
                rlCalls, lockVars, apiKey, dbVars>>

vars == <<now, ticks, buckets, cache, provingKey, verifyingKey, req, arrivals,
          allowLog, rlCalls, lockVars, apiKey, dbVars, sdkVars>>

-----------------------------------------------------------------------------
(* Bounds of the model *)

\* concurrent generate-proof requests
NReq == 2
\* goroutines calling the cache in the cache's own specification
NGor == 2
\* calls each of them makes
MaxCacheOps == 2
\* clock advances in one run of the cache's own specification
MaxTicksCache == 2
\* capacity of the cache in its own specification
CacheCap == 2
\* generate-proof requests received in one run
MaxArrivals == 2
\* clock advances in one run of the service
MaxTicks == 1
\* Allow calls in one run of the rate limiter's own specification
MaxCalls == 13
\* clock advances in one run of the rate limiter's own specification
MaxTicksRL == 2
\* GET /cache/stats requests in one run of the router's specification
MaxStatsCalls == 2
\* largest maxAttempts of a retry configuration
MaxRetryAttempts == 4
\* overlapping calls of CircuitBreaker.execute
NCallers == 2
\* calls of execute each caller makes
MaxExecutes == 5
\* clock advances in one run of the circuit breaker's specification
MaxTicksBreaker == 3
\* clock advances in one run of the database's specification
MaxTicksDb == 2
\* configured RPC endpoints
NEndpoints == 3
\* calls of getConnection in one run
MaxGetConnections == 3
\* times an endpoint goes down or comes back in one run
MaxHealthChanges == 4
\* calls of ZKPaymentClient.request in one run
MaxRequests == 3
\* requests the middleware handles in one run
MaxMwRequests == 2

-----------------------------------------------------------------------------
(* Program constants *)

\* NewRateLimiter(10, time.Minute)
maxRate == 10
period == 60
\* cleanupInterval: 5 * time.Minute; idle buckets older than 10 minutes go
cleanupInterval == 300
idleLimit == 600
ttl == 3600
\* cache cleanup ticker, 5 * time.Minute
cacheSweepInterval == 300
\* validateProofRequest: timestamps within [now-300, now+60]
pastWindow == 300
futureWindow == 60
\* validateProofRequest: len(...) > 100
maxFieldLen == 100

\* NewProofCache(1000, time.Hour)
maxSize == 1000

\* the identities the rate limiter sees, and those that use the service
IPs == {"ip1", "ip2"}
Clients == {"ip1"}

\* the wall clock when the service starts
Epoch == 1000

-----------------------------------------------------------------------------
(* Decimal strings *)

Digits == {"0", "1", "2", "3", "4", "5", "6", "7", "8", "9"}

DigitVal(c) ==
    CASE c = "0" -> 0 [] c = "1" -> 1 [] c = "2" -> 2 [] c = "3" -> 3
      [] c = "4" -> 4 [] c = "5" -> 5 [] c = "6" -> 6 [] c = "7" -> 7
      [] c = "8" -> 8 [] c = "9" -> 9

DigitChar(n) ==
    CASE n = 0 -> "0" [] n = 1 -> "1" [] n = 2 -> "2" [] n = 3 -> "3"
      [] n = 4 -> "4" [] n = 5 -> "5" [] n = 6 -> "6" [] n = 7 -> "7"
      [] n = 8 -> "8" [] n = 9 -> "9"

\* func isValidNumeric(s string) bool
isValidNumeric(s) ==
    /\ s # <<>>
    /\ \A i \in 1..Len(s) : s[i] \in Digits

RECURSIVE DecimalValue(_)
DecimalValue(s) ==
    IF s = <<>> THEN 0
    ELSE 10 * DecimalValue(SubSeq(s, 1, Len(s) - 1)) + DigitVal(s[Len(s)])

\* The element of the scalar field (of order 7 in the model) a decimal string
\* of any length stands for: the big.Int reduced as fr.Element.SetBigInt and
\* the hash reduce it.
RECURSIVE PowerOfTen(_)
PowerOfTen(n) ==
    IF n = 0 THEN 1
    ELSE IF n % 2 = 0 THEN (PowerOfTen(n \div 2) * PowerOfTen(n \div 2)) % 7
    ELSE (10 * PowerOfTen(n - 1)) % 7

RECURSIVE FieldValueOfDigits(_, _, _)
FieldValueOfDigits(s, lo, hi) ==
    IF lo > hi THEN 0
    ELSE IF lo = hi THEN DigitVal(s[lo]) % 7
    ELSE (FieldValueOfDigits(s, lo, (lo + hi) \div 2) * PowerOfTen(hi - (lo + hi) \div 2)
            + FieldValueOfDigits(s, (lo + hi) \div 2 + 1, hi)) % 7

FieldValue(s) == FieldValueOfDigits(s, 1, Len(s))

\* new(big.Int).SetString(s, 10) with the result flag ignored, as the
\* pre-verifier does: a string that is no number leaves the fresh big.Int 0.
SetString(s) == IF isValidNumeric(s) THEN FieldValue(s) ELSE 0

\* a decimal string without its leading zeros
RECURSIVE Canonical(_)
Canonical(s) == IF Len(s) > 1 /\ s[1] = "0" THEN Canonical(Tail(s)) ELSE s

\* a <= b for the integers two decimal strings of any length stand for
LessOrEqual(a, b) ==
    LET x == Canonical(a)
        y == Canonical(b)
    IN  IF Len(x) # Len(y) THEN Len(x) < Len(y)
        ELSE \/ x = y
             \/ \E k \in 1..Len(x) :
                    /\ \A j \in 1..(k - 1) : x[j] = y[j]
                    /\ DigitVal(x[k]) < DigitVal(y[k])

\* fmt.Sprintf("%d", n) for the non-negative numbers the model prints
RECURSIVE Sprintf(_)
Sprintf(n) == IF n < 10 THEN <<DigitChar(n)>> ELSE Sprintf(n \div 10) \o <<DigitChar(n % 10)>>

-----------------------------------------------------------------------------
(* Rate limiter (token bucket per IP) *)

\* tokensToAdd := int(elapsed / rl.period * time.Duration(rl.maxRate))
\* Duration is an integer: the division truncates before the multiplication.
TokensToAdd(elapsed) == (elapsed \div period) * maxRate

\* The bucket Allow works on: the stored one, or a fresh full one.
BucketOf(ip) ==
    IF ip \in DOMAIN buckets THEN buckets[ip]
    ELSE [tokens |-> maxRate, lastRefill |-> now]

\* Refilled without the cap: bucket.tokens may pass rl.maxRate
RefilledNoCap(b) ==
    IF TokensToAdd(now - b.lastRefill) > 0
    THEN [tokens |-> b.tokens + TokensToAdd(now - b.lastRefill), lastRefill |-> now]
    ELSE b

\* The bucket after the lazy refill of Allow.
Refilled(b) ==
    IF TokensToAdd(now - b.lastRefill) > 0
    THEN [tokens |-> IF b.tokens + TokensToAdd(now - b.lastRefill) > maxRate
                     THEN maxRate
                     ELSE b.tokens + TokensToAdd(now - b.lastRefill),
          lastRefill |-> now]
    ELSE b

\* The value Allow(ip) returns in the current state.
AllowResult(ip) == Refilled(BucketOf(ip)).tokens > 0

\* AllowOn without the charge: bucket.tokens-- left out
AllowOnNoCharge(b) == Refilled(b)

\* history: what is recorded of an Allow(ip) call: its time, its result, and
\* whether it found no bucket (!exists)
LogEntry(ip) == [t |-> now, ok |-> AllowResult(ip), fresh |-> ip \notin DOMAIN buckets]

\* The bucket an Allow call on bucket b leaves behind.
AllowOn(b) ==
    IF Refilled(b).tokens > 0
    THEN [Refilled(b) EXCEPT !.tokens = Refilled(b).tokens - 1]
    ELSE Refilled(b)

\* rl.buckets after Allow(ip)
BucketsAfterAllow(ip) ==
    [k \in DOMAIN buckets \cup {ip} |-> IF k = ip THEN AllowOn(BucketOf(ip)) ELSE buckets[k]]

\* The bucket left by Allow calls repeated until one is denied.
RECURSIVE Drained(_)
Drained(b) == IF Refilled(b).tokens > 0 THEN Drained(AllowOn(b)) ELSE AllowOn(b)

\* BucketsAfterCleanup removing every bucket, used or not
BucketsAfterCleanupAll == << >>

\* rl.buckets after one pass of the cleanup loop
BucketsAfterCleanup ==
    [k \in {j \in DOMAIN buckets : ~(now - buckets[j].lastRefill > idleLimit)} |-> buckets[k]]

-----------------------------------------------------------------------------
(* Requests, validation *)

\* a string literal of the model: the decimal string of a small number
Str(n) == Sprintf(n)

\* if err := c.BindJSON(&req): the body is JSON whose fields have the types
\* of ProofRequest
BindJSON(r) == r.jsonOK

\* TimestampError without the comparison of paymentTime with currentTime
TimestampErrorNoOrder(r, t) ==
    IF r.CurrentTime < t - pastWindow \/ r.CurrentTime > t + futureWindow
    THEN "currentTime must be within last 5 minutes"
    ELSE IF r.PaymentTime < t - pastWindow \/ r.PaymentTime > t + futureWindow
    THEN "paymentTime must be within last 5 minutes"
    ELSE ""

\* validateProofRequest: the checks of the two timestamps, at server time t
TimestampError(r, t) ==
    IF r.CurrentTime < t - pastWindow \/ r.CurrentTime > t + futureWindow
    THEN "currentTime must be within last 5 minutes"
    ELSE IF r.PaymentTime < t - pastWindow \/ r.PaymentTime > t + futureWindow
    THEN "paymentTime must be within last 5 minutes"
    ELSE IF r.PaymentTime > r.CurrentTime THEN "paymentTime cannot be in the future"
    ELSE ""

\* func validateProofRequest(req *ProofRequest) error, at server time t;
\* "" is the nil error
validateProofRequest(r, t) ==
    IF r.MinAmount = <<>> THEN "minAmount is required"
    ELSE IF r.RecipientKeyX = <<>> THEN "recipientKeyX is required"
    ELSE IF r.RecipientKeyY = <<>> THEN "recipientKeyY is required"
    ELSE IF r.ActualAmount = <<>> THEN "actualAmount is required"
    ELSE IF r.SenderKeyX = <<>> THEN "senderKeyX is required"
    ELSE IF r.SenderKeyY = <<>> THEN "senderKeyY is required"
    ELSE IF r.SignatureR8X = <<>> THEN "signatureR8x is required"
    ELSE IF r.SignatureR8Y = <<>> THEN "signatureR8y is required"
    ELSE IF r.SignatureS = <<>> THEN "signatureS is required"
    ELSE IF Len(r.MinAmount) > maxFieldLen THEN "minAmount too long (max 100 chars)"
    ELSE IF Len(r.RecipientKeyX) > maxFieldLen THEN "recipientKeyX too long (max 100 chars)"
    ELSE IF Len(r.RecipientKeyY) > maxFieldLen THEN "recipientKeyY too long (max 100 chars)"
    ELSE IF ~isValidNumeric(r.MinAmount) THEN "minAmount must be numeric"
    ELSE IF ~isValidNumeric(r.ActualAmount) THEN "actualAmount must be numeric"
    ELSE IF ~isValidNumeric(r.MaxBlockAge) THEN "maxBlockAge must be numeric"
    ELSE IF r.MinAmount = <<"0">> \/ r.MinAmount[1] = "-" THEN "minAmount must be positive"
    ELSE IF r.ActualAmount = <<"0">> \/ r.ActualAmount[1] = "-" THEN "actualAmount must be positive"
    ELSE TimestampError(r, t)

-----------------------------------------------------------------------------
(* Signature, circuit, prover, verifier *)

\* The MiMC hash of the payment details, as a small number: it depends on
\* every value written to it.
MiMC(actualAmount, senderX, senderY, recipientX, recipientY, paymentTime) ==
    (actualAmount + 2 * senderX + 3 * senderY + 5 * recipientX + 7 * recipientY
        + paymentTime) % 7

\* EdDSA over the message hash: the one scalar S the holder of the sender's
\* private key produces for the message (R8 is fixed by the signer's nonce).
EdDSAVerify(senderX, senderY, r8x, r8y, s, messageHash) ==
    s = (messageHash + senderX + senderY + r8x + r8y) % 7

\* func preVerifySignature(req *ProofRequest) error; TRUE is the nil error
preVerifySignature(r) ==
    EdDSAVerify(SetString(r.SenderKeyX), SetString(r.SenderKeyY),
                SetString(r.SignatureR8X), SetString(r.SignatureR8Y),
                SetString(r.SignatureS),
                MiMC(SetString(r.ActualAmount), SetString(r.SenderKeyX),
                     SetString(r.SenderKeyY), SetString(r.RecipientKeyX),
                     SetString(r.RecipientKeyY), r.PaymentTime))

\* frontend.NewWitness(&assignment, field): every string of the assignment
\* must convert to a field element
NewWitnessOK(r) ==
    /\ isValidNumeric(r.MinAmount) /\ isValidNumeric(r.RecipientKeyX)
    /\ isValidNumeric(r.RecipientKeyY) /\ isValidNumeric(r.MaxBlockAge)
    /\ isValidNumeric(r.ActualAmount) /\ isValidNumeric(r.SenderKeyX)
    /\ isValidNumeric(r.SenderKeyY) /\ isValidNumeric(r.SignatureR8X)
    /\ isValidNumeric(r.SignatureR8Y) /\ isValidNumeric(r.SignatureS)

\* TimeCheck as a strict comparison
TimeCheckStrict(currentTime, paymentTime, maxBlockAge) ==
    /\ currentTime - paymentTime >= 0
    /\ LessOrEqual(Sprintf(currentTime - paymentTime), maxBlockAge)
    /\ Sprintf(currentTime - paymentTime) # Canonical(maxBlockAge)

\* The recency constraint of PaymentCircuit.Define:
\*   timeDiff := api.Sub(CurrentTime, PaymentTime)
\*   api.AssertIsLessOrEqual(timeDiff, MaxBlockAge)
\* A negative difference is a field element far above any MaxBlockAge.
TimeCheck(currentTime, paymentTime, maxBlockAge) ==
    /\ currentTime - paymentTime >= 0
    /\ LessOrEqual(Sprintf(currentTime - paymentTime), maxBlockAge)

\* The amount constraint: api.AssertIsLessOrEqual(MinAmount, ActualAmount)
AmountCheck(minAmount, actualAmount) == LessOrEqual(minAmount, actualAmount)

\* func (circuit *PaymentCircuit) Define: the witness satisfies every constraint
Define(r) ==
    /\ AmountCheck(r.MinAmount, r.ActualAmount)
    /\ TimeCheck(r.CurrentTime, r.PaymentTime, r.MaxBlockAge)
    /\ EdDSAVerify(FieldValue(r.SenderKeyX), FieldValue(r.SenderKeyY),
                   FieldValue(r.SignatureR8X), FieldValue(r.SignatureR8Y),
                   FieldValue(r.SignatureS),
                   MiMC(FieldValue(r.ActualAmount), FieldValue(r.SenderKeyX),
                        FieldValue(r.SenderKeyY), FieldValue(r.RecipientKeyX),
                        FieldValue(r.RecipientKeyY), r.PaymentTime))

\* the public part of the witness, witness.Public()
PublicWitness(r) ==
    <<r.MinAmount, r.RecipientKeyX, r.RecipientKeyY, r.MaxBlockAge, r.CurrentTime>>

\* the private part of the witness
PrivateWitness(r) ==
    <<r.ActualAmount, r.SenderKeyX, r.SenderKeyY, r.PaymentTime,
      r.SignatureR8X, r.SignatureR8Y, r.SignatureS>>

\* groth16.Prove(ccs, provingKey, witness) for a satisfying witness: the proof
\* is bound to the key and the witness it was made from
Prove(pk, r) == [pk |-> pk, pub |-> PublicWitness(r), priv |-> PrivateWitness(r)]

NoProof == [pk |-> "", pub |-> <<>>, priv |-> <<>>]

\* groth16.Verify(proof, verifyingKey, publicWitness) = nil: the verifying key
\* is the proving key's counterpart and the public inputs are the proof's
Verify(proof, vk, publicWitness) ==
    /\ proof.pk = vk
    /\ proof.pub = publicWitness

-----------------------------------------------------------------------------
(* Proof cache *)

\* func generateCacheKey(req *ProofRequest) string:
\*   data := req.MinAmount + req.RecipientKey + req.MaxBlockAge
\* RecipientKey is the recipient's key, its X and Y strings; SHA-256 and the
\* hex encoding are taken as injective and kept as a tag on the data.
generateCacheKey(r) ==
    [sha256 |-> r.MinAmount \o r.RecipientKeyX \o r.RecipientKeyY \o r.MaxBlockAge]

NoResp == [Proof |-> NoProof, PublicInputs |-> <<>>, GenerationTime |-> 0]

\* GetFound without the expiry check
GetFoundNoExpiry(r) == generateCacheKey(r) \in DOMAIN cache

\* func (pc *ProofCache) Get: whether the lookup is a hit
GetFound(r) ==
    /\ generateCacheKey(r) \in DOMAIN cache
    /\ ~(now - cache[generateCacheKey(r)].GeneratedAt > ttl)

\* the ProofResponse Get returns on a hit
GetResponse(r) ==
    [Proof |-> cache[generateCacheKey(r)].Proof,
     PublicInputs |-> cache[generateCacheKey(r)].PublicInputs,
     GenerationTime |-> 0]

\* pc.cache after Get: a hit increments the entry's access count
CacheAfterGet(r) ==
    IF GetFound(r)
    THEN [cache EXCEPT ![generateCacheKey(r)].AccessCount = @ + 1]
    ELSE cache

\* func (pc *ProofCache) evictLRU(): the caches it may leave.  oldestTime
\* starts at time.Now(); an entry replaces the candidate only if it is
\* strictly older, and the map is ranged over in no fixed order, so any entry
\* of the least GeneratedAt below now may be the one deleted, and none is
\* when every entry was generated at now.
evictLRU(c) ==
    LET old == {k \in DOMAIN c : c[k].GeneratedAt < now
                                 /\ \A j \in DOMAIN c : c[k].GeneratedAt <= c[j].GeneratedAt}
    IN  IF old = {} THEN {c}
        ELSE {[k \in DOMAIN c \ {v} |-> c[k]] : v \in old}

\* func (pc *ProofCache) Set: the caches it may leave
Set(r, resp) ==
    LET entry == [Proof |-> resp.Proof, PublicInputs |-> resp.PublicInputs,
                  GeneratedAt |-> now, AccessCount |-> 1]
        bases == IF Cardinality(DOMAIN cache) >= cacheMaxSize THEN evictLRU(cache) ELSE {cache}
    IN  {[k \in DOMAIN c \cup {generateCacheKey(r)} |->
             IF k = generateCacheKey(r) THEN entry ELSE c[k]] : c \in bases}

\* one pass of func (pc *ProofCache) cleanup()
CacheAfterCleanup ==
    [k \in {j \in DOMAIN cache : ~(now - cache[j].GeneratedAt > ttl)} |-> cache[k]]

-----------------------------------------------------------------------------
(* The generate-proof requests the clients send *)

\* seconds between paymentTime and currentTime: fresh, exactly maxBlockAge, stale
Ages == {30, 60, 100}

\* the signature scalar the sender's key gives for the payment
SignatureFor(r) ==
    (MiMC(SetString(r.ActualAmount), SetString(r.SenderKeyX), SetString(r.SenderKeyY),
          SetString(r.RecipientKeyX), SetString(r.RecipientKeyY), r.PaymentTime)
       + SetString(r.SenderKeyX) + SetString(r.SenderKeyY)
       + SetString(r.SignatureR8X) + SetString(r.SignatureR8Y)) % 7

Unsigned(minAmount, actualAmount, maxBlockAge, currentTime, paymentTime) ==
    [jsonOK |-> TRUE,
     MinAmount |-> minAmount, RecipientKeyX |-> Str(7), RecipientKeyY |-> Str(8),
     MaxBlockAge |-> maxBlockAge, CurrentTime |-> currentTime,
     ActualAmount |-> actualAmount, SenderKeyX |-> Str(3), SenderKeyY |-> Str(4),
     PaymentTime |-> paymentTime,
     SignatureR8X |-> Str(5), SignatureR8Y |-> Str(6), SignatureS |-> Str(0)]

\* a request carrying the sender's signature
Signed(r) == [r EXCEPT !.SignatureS = Str(SignatureFor(r))]

\* a request carrying another scalar
Forged(r) == [r EXCEPT !.SignatureS = Str((SignatureFor(r) + 1) % 7)]

\* well-formed, correctly signed requests sent at time t: payments of every
\* age for minAmount 1, and for minAmount 2 a sufficient and an insufficient one
SignedRequests(t) ==
    {Signed(Unsigned(Str(1), Str(2), Str(60), t, t - g)) : g \in Ages}
    \cup {Signed(Unsigned(Str(2), a, Str(60), t, t - 30)) : a \in {Str(1), Str(2)}}

\* the same with a wrong signature, a missing field, a field of the wrong
\* JSON type, and a recipient key that is no number (signed as the
\* pre-verifier reads it)
MalformedRequests(t) ==
    {Forged(Unsigned(Str(1), Str(2), Str(60), t, t - 30)),
     Signed([Unsigned(Str(1), Str(2), Str(60), t, t - 30) EXCEPT !.MinAmount = <<>>]),
     [Signed(Unsigned(Str(1), Str(2), Str(60), t, t - 30)) EXCEPT !.jsonOK = FALSE],
     Signed([Unsigned(Str(1), Str(2), Str(60), t, t - 30) EXCEPT !.RecipientKeyX = <<"x">>])}

\* the requests a client may send at time t
Requests(t) == SignedRequests(t) \cup MalformedRequests(t)

NoRequest == Unsigned(<<>>, <<>>, <<>>, 0, 0)

-----------------------------------------------------------------------------
(* The request handler, one action per stage *)

Slots == 1..NReq

Idle ==
    [pc |-> "idle", ip |-> "", auth |-> <<>>, r |-> NoRequest, start |-> 0,
     proof |-> NoProof, proved |-> 0, status |-> 0, error |-> "", resp |-> NoResp,
     stages |-> <<>>, written |-> 0]

\* the request of slot i ends with an error response
Fail(i, stage, code, msg) ==
    [req EXCEPT ![i].pc = "done", ![i].status = code, ![i].error = msg,
                ![i].stages = Append(@, <<stage, "fail">>),
                ![i].written = @ + 1]

\* the request of slot i passes a stage and goes on to the next
Pass(i, stage, next) ==
    [req EXCEPT ![i].pc = next, ![i].stages = Append(@, <<stage, "pass">>)]

\* a client sends POST /generate-proof
Arrive(i) ==
    /\ arrivals < MaxArrivals
    /\ req[i].pc = "idle"
    /\ \A j \in Slots : j < i => req[j].pc # "idle"
    /\ \E ip \in Clients, r \in Requests(now) :
          req' = [req EXCEPT ![i] = [Idle EXCEPT !.pc = "ratelimit", !.ip = ip, !.r = r]]
    /\ arrivals' = arrivals + 1
    /\ UNCHANGED <<apiKey, dbVars, sdkVars, now, ticks, buckets, cache, provingKey, verifyingKey, allowLog, rlCalls, lockVars>>

\* RateLimitStep answering a denial with 400
RateLimitStepBadRequest(i) ==
    /\ req[i].pc = "ratelimit"
    /\ buckets' = BucketsAfterAllow(req[i].ip)
    /\ req' = IF AllowResult(req[i].ip)
              THEN [Pass(i, "ratelimit", "validate") EXCEPT ![i].start = now]
              ELSE Fail(i, "ratelimit", 400, "Rate limit exceeded")
    /\ UNCHANGED <<apiKey, dbVars, sdkVars, now, ticks, cache, provingKey, verifyingKey, arrivals, allowLog, rlCalls, lockVars>>

\* RateLimitStep answering 429 without Abort: the handler chain goes on
RateLimitStepNoAbort(i) ==
    /\ req[i].pc = "ratelimit"
    /\ buckets' = BucketsAfterAllow(req[i].ip)
    /\ req' = IF AllowResult(req[i].ip)
              THEN [Pass(i, "ratelimit", "validate") EXCEPT ![i].start = now]
              ELSE [Fail(i, "ratelimit", 429, "Rate limit exceeded")
                       EXCEPT ![i].pc = "validate", ![i].start = now]
    /\ UNCHANGED <<apiKey, dbVars, sdkVars, now, ticks, cache, provingKey, verifyingKey, arrivals, allowLog, rlCalls, lockVars>>

\* rateLimitMiddleware: Allow(clientIP), 429 and Abort when it is false
RateLimitStep(i) ==
    /\ req[i].pc = "ratelimit"
    /\ buckets' = BucketsAfterAllow(req[i].ip)
    /\ req' = IF AllowResult(req[i].ip)
              THEN [Pass(i, "ratelimit", "validate") EXCEPT ![i].start = now]
              ELSE Fail(i, "ratelimit", 429, "Rate limit exceeded")
    /\ UNCHANGED <<apiKey, dbVars, sdkVars, now, ticks, cache, provingKey, verifyingKey, arrivals, allowLog, rlCalls, lockVars>>

\* ValidateStep without the return after a validation error
ValidateStepNoReturn(i) ==
    /\ req[i].pc = "validate"
    /\ req' = IF ~BindJSON(req[i].r)
              THEN Fail(i, "validate", 400, "Invalid request format")
              ELSE IF validateProofRequest(req[i].r, now) # ""
              THEN [Fail(i, "validate", 400, validateProofRequest(req[i].r, now))
                       EXCEPT ![i].pc = "cache"]
              ELSE Pass(i, "validate", "cache")
    /\ UNCHANGED <<apiKey, dbVars, sdkVars, now, ticks, buckets, cache, provingKey, verifyingKey, arrivals,
                   allowLog, rlCalls, lockVars>>

\* generateProofHandler: BindJSON and validateProofRequest
ValidateStep(i) ==
    /\ req[i].pc = "validate"
    /\ req' = IF ~BindJSON(req[i].r)
              THEN Fail(i, "validate", 400, "Invalid request format")
              ELSE IF validateProofRequest(req[i].r, now) # ""
              THEN Fail(i, "validate", 400, validateProofRequest(req[i].r, now))
              ELSE Pass(i, "validate", "cache")
    /\ UNCHANGED <<apiKey, dbVars, sdkVars, now, ticks, buckets, cache, provingKey, verifyingKey, arrivals,
                   allowLog, rlCalls, lockVars>>

\* CacheLookupStep without the return after a hit
CacheLookupStepNoReturn(i) ==
    /\ req[i].pc = "cache"
    /\ cache' = CacheAfterGet(req[i].r)
    /\ req' = [req EXCEPT ![i].pc = "preverify",
                          ![i].stages = Append(@, <<"cache", "miss">>)]
    /\ UNCHANGED <<apiKey, dbVars, sdkVars, now, ticks, buckets, provingKey, verifyingKey, arrivals, allowLog, rlCalls, lockVars>>

\* generateProofHandler: proofCache.Get; a hit is answered 200 at once
CacheLookupStep(i) ==
    /\ req[i].pc = "cache"
    /\ cache' = CacheAfterGet(req[i].r)
    /\ req' = IF GetFound(req[i].r)
              THEN [req EXCEPT ![i].pc = "done", ![i].status = 200,
                               ![i].resp = GetResponse(req[i].r),
                               ![i].stages = @ \o << <<"cache", "hit">>, <<"respond", "pass">> >>,
                               ![i].written = @ + 1]
              ELSE [req EXCEPT ![i].pc = "preverify",
                               ![i].stages = Append(@, <<"cache", "miss">>)]
    /\ UNCHANGED <<apiKey, dbVars, sdkVars, now, ticks, buckets, provingKey, verifyingKey, arrivals, allowLog, rlCalls, lockVars>>

\* generateProofHandler: preVerifySignature
PreVerifyStep(i) ==
    /\ req[i].pc = "preverify"
    /\ req' = IF preVerifySignature(req[i].r)
              THEN Pass(i, "preverify", "prove")
              ELSE Fail(i, "preverify", 400, "Invalid signature: invalid EdDSA signature")
    /\ UNCHANGED <<apiKey, dbVars, sdkVars, now, ticks, buckets, cache, provingKey, verifyingKey, arrivals,
                   allowLog, rlCalls, lockVars>>

\* ProveStep reporting an unsatisfiable witness as a validation error
ProveStepAsValidation(i) ==
    /\ req[i].pc = "prove"
    /\ req' = IF ~NewWitnessOK(req[i].r)
              THEN Fail(i, "prove", 500, "witness creation failed")
              ELSE IF ~Define(req[i].r)
              THEN Fail(i, "prove", 400, "invalid payment proof inputs")
              ELSE [Pass(i, "prove", "sanity") EXCEPT ![i].proof = Prove(provingKey, req[i].r),
                                                      ![i].proved = now]
    /\ UNCHANGED <<apiKey, dbVars, sdkVars, now, ticks, buckets, cache, provingKey, verifyingKey, arrivals,
                   allowLog, rlCalls, lockVars>>

\* ProveStep running groth16.Setup again and assigning the keys it returns
ProveStepRunsSetup(i) ==
    /\ req[i].pc = "prove"
    /\ provingKey' = "setup2"
    /\ verifyingKey' = "setup2"
    /\ req' = IF ~NewWitnessOK(req[i].r)
              THEN Fail(i, "prove", 500, "witness creation failed")
              ELSE IF ~Define(req[i].r)
              THEN Fail(i, "prove", 500, "proof generation failed")
              ELSE [Pass(i, "prove", "sanity") EXCEPT ![i].proof = Prove("setup2", req[i].r),
                                                      ![i].proved = now]
    /\ UNCHANGED <<apiKey, dbVars, sdkVars, now, ticks, buckets, cache, arrivals, allowLog, rlCalls, lockVars>>

\* generateProofHandler: frontend.NewWitness and groth16.Prove; proved is the
\* clock read by time.Since(proofStart) when Prove has returned
ProveStep(i) ==
    /\ req[i].pc = "prove"
    /\ req' = IF ~NewWitnessOK(req[i].r)
              THEN Fail(i, "prove", 500, "witness creation failed")
              ELSE IF ~Define(req[i].r)
              THEN Fail(i, "prove", 500, "proof generation failed")
              ELSE [Pass(i, "prove", "sanity") EXCEPT ![i].proof = Prove(provingKey, req[i].r),
                                                      ![i].proved = now]
    /\ UNCHANGED <<apiKey, dbVars, sdkVars, now, ticks, buckets, cache, provingKey, verifyingKey, arrivals,
                   allowLog, rlCalls, lockVars>>

\* SanityStep ignoring the error of groth16.Verify
SanityStepIgnoresError(i) ==
    /\ req[i].pc = "sanity"
    /\ req' = Pass(i, "sanity", "store")
    /\ UNCHANGED <<apiKey, dbVars, sdkVars, now, ticks, buckets, cache, provingKey, verifyingKey, arrivals,
                   allowLog, rlCalls, lockVars>>

\* generateProofHandler: groth16.Verify on the fresh proof
SanityStep(i) ==
    /\ req[i].pc = "sanity"
    /\ req' = IF Verify(req[i].proof, verifyingKey, PublicWitness(req[i].r))
              THEN Pass(i, "sanity", "store")
              ELSE Fail(i, "sanity", 500, "generated proof is invalid")
    /\ UNCHANGED <<apiKey, dbVars, sdkVars, now, ticks, buckets, cache, provingKey, verifyingKey, arrivals,
                   allowLog, rlCalls, lockVars>>

\* the ProofResponse generateProofHandler builds
Response(i) ==
    [Proof |-> req[i].proof,
     PublicInputs |-> <<req[i].r.MinAmount, req[i].r.RecipientKeyX, req[i].r.RecipientKeyY,
                        req[i].r.MaxBlockAge, Sprintf(req[i].r.CurrentTime)>>,
     GenerationTime |-> (now - req[i].start) * 1000]

\* generateProofHandler: build the response and proofCache.Set
StoreStep(i) ==
    /\ req[i].pc = "store"
    /\ cache' \in Set(req[i].r, Response(i))
    /\ req' = [Pass(i, "store", "respond") EXCEPT ![i].resp = Response(i)]
    /\ UNCHANGED <<apiKey, dbVars, sdkVars, now, ticks, buckets, provingKey, verifyingKey, arrivals, allowLog, rlCalls, lockVars>>

\* generateProofHandler: c.JSON(http.StatusOK, response)
RespondStep(i) ==
    /\ req[i].pc = "respond"
    /\ req' = [req EXCEPT ![i].pc = "done", ![i].status = 200,
                          ![i].stages = Append(@, <<"respond", "pass">>),
                          ![i].written = @ + 1]
    /\ UNCHANGED <<apiKey, dbVars, sdkVars, now, ticks, buckets, cache, provingKey, verifyingKey, arrivals,
                   allowLog, rlCalls, lockVars>>

\* the handler has returned; the slot serves the next request
Finish(i) ==
    /\ req[i].pc = "done"
    /\ req' = [req EXCEPT ![i] = Idle]
    /\ UNCHANGED <<apiKey, dbVars, sdkVars, now, ticks, buckets, cache, provingKey, verifyingKey, arrivals,
                   allowLog, rlCalls, lockVars>>

\* A client polls GET /health until it is answered 429: the rate-limit
\* middleware runs for every route, and healthHandler writes no service state.
HealthFlood(ip) ==
    /\ buckets' = [k \in DOMAIN buckets \cup {ip} |->
                      IF k = ip THEN Drained(BucketOf(ip)) ELSE buckets[k]]
    /\ UNCHANGED <<apiKey, dbVars, sdkVars, now, ticks, cache, provingKey, verifyingKey, req, arrivals,
                   allowLog, rlCalls, lockVars>>

\* clock advances offered to the service
TickDeltas == {60, 3660}

Tick(d) ==
    /\ ticks < MaxTicks
    /\ now' = now + d
    /\ ticks' = ticks + 1
    /\ UNCHANGED <<apiKey, dbVars, sdkVars, buckets, cache, provingKey, verifyingKey, req, arrivals, allowLog, rlCalls, lockVars>>

\* func (pc *ProofCache) cleanup(): one firing of the ticker
CacheCleanup ==
    /\ now >= Epoch + cacheSweepInterval
    /\ mu = {}
    /\ cache' = CacheAfterCleanup
    /\ UNCHANGED <<apiKey, dbVars, sdkVars, now, ticks, buckets, provingKey, verifyingKey, req, arrivals,
                   allowLog, rlCalls, lockVars>>

-----------------------------------------------------------------------------
(* The client SDK's resilience helpers (src/sdk/src/types.ts):
   retryWithBackoff and CircuitBreaker.  Delays are in milliseconds; the
   breaker reads the clock now, in whole seconds. *)

\* export const DEFAULT_RETRY_CONFIG
DEFAULT_RETRY_CONFIG ==
    [maxAttempts |-> 3, baseDelay |-> 1000, maxDelay |-> 10000, backoffMultiplier |-> 2]

\* the RetryConfig values a caller passes: the default among them, and others
\* with fewer and more attempts, a longer first delay and a lower ceiling
RetryConfigs ==
    [maxAttempts : 0..MaxRetryAttempts, baseDelay : {1000, 4000},
     maxDelay : {3000, 10000}, backoffMultiplier : {1, 2, 3}]

\* no call of retryWithBackoff is in progress
NoRetry ==
    [pc |-> "none", config |-> DEFAULT_RETRY_CONFIG, attempt |-> 0, delay |-> 0,
     calls |-> 0, failures |-> 0, waits |-> <<>>]

\* retryWithBackoff(fn, config) at the head of its loop:
\*   let delay = config.baseDelay; for (let attempt = 1; ...
\* calls and failures count the invocations of fn and those that threw, and
\* waits lists the arguments of sleep
RetryStart(config) ==
    [pc |-> "loop", config |-> config, attempt |-> 1, delay |-> config.baseDelay,
     calls |-> 0, failures |-> 0, waits |-> <<>>]

\* Math.min
Min(a, b) == IF a <= b THEN a ELSE b

\* return await fn(): fn resolves
RetryInvokeReturns ==
    /\ retry.pc = "loop" /\ retry.attempt <= retry.config.maxAttempts
    /\ retry' = [retry EXCEPT !.pc = "returned", !.calls = @ + 1]
    /\ UNCHANGED <<now, ticks, serverVars, appVars, breaker, callers>>

\* await fn() throws: catch (error), then if (attempt < config.maxAttempts)
RetryInvokeThrows ==
    /\ retry.pc = "loop" /\ retry.attempt <= retry.config.maxAttempts
    /\ retry' = IF retry.attempt < retry.config.maxAttempts
                THEN [retry EXCEPT !.pc = "sleep", !.calls = @ + 1, !.failures = @ + 1]
                ELSE [retry EXCEPT !.attempt = @ + 1, !.calls = @ + 1, !.failures = @ + 1]
    /\ UNCHANGED <<now, ticks, serverVars, appVars, breaker, callers>>

\* await sleep(delay); delay = Math.min(delay * config.backoffMultiplier,
\* config.maxDelay); attempt++
RetrySleep ==
    /\ retry.pc = "sleep"
    /\ retry' = [retry EXCEPT !.pc = "loop", !.attempt = @ + 1,
                              !.waits = Append(@, retry.delay),
                              !.delay = Min(retry.delay * retry.config.backoffMultiplier,
                                            retry.config.maxDelay)]
    /\ UNCHANGED <<now, ticks, serverVars, appVars, breaker, callers>>

\* the loop is over: throw new Error(`Failed after ... attempts`)
RetryThrow ==
    /\ retry.pc = "loop" /\ retry.attempt > retry.config.maxAttempts
    /\ retry' = [retry EXCEPT !.pc = "thrown"]
    /\ UNCHANGED <<now, ticks, serverVars, appVars, breaker, callers>>

\* new CircuitBreaker(): threshold = 5 failures before opening
threshold == 5
\* retryAfter = 30000 ms, in seconds
retryAfter == 30

\* the calls of execute that may overlap
Callers == 1..NCallers

\* the fields of a new CircuitBreaker; run is history: the calls that have
\* failed since the last call that succeeded
NewBreaker == [state |-> "CLOSED", failureCount |-> 0, lastFailureTime |-> 0, run |-> 0]

\* a caller between calls of execute: n counts its calls, result is the outcome
\* of the last one, probe tells whether its call set the state to HALF_OPEN
NoCall == [pc |-> "idle", probe |-> FALSE, result |-> "", n |-> 0]

\* private recordFailure(): void
recordFailure(b) ==
    [b EXCEPT !.state = IF b.failureCount + 1 >= threshold THEN "OPEN" ELSE b.state,
              !.failureCount = b.failureCount + 1,
              !.lastFailureTime = now]

\* private close(): void
close(b) == [b EXCEPT !.state = "CLOSED", !.failureCount = 0]

\* execute, state OPEN and Date.now() - lastFailureTime > retryAfter false:
\* throw new Error('Circuit breaker is OPEN')
BreakerReject(c) ==
    /\ callers[c].pc = "idle" /\ callers[c].n < MaxExecutes
    /\ breaker.state = "OPEN" /\ ~(now - breaker.lastFailureTime > retryAfter)
    /\ callers' = [callers EXCEPT ![c] = [pc |-> "idle", probe |-> FALSE,
                                          result |-> "rejected", n |-> @.n + 1]]
    /\ UNCHANGED <<now, ticks, serverVars, appVars, retry, breaker>>

\* execute up to await fn(): the state was not OPEN, or it was and is now
\* HALF_OPEN
BreakerInvoke(c) ==
    /\ callers[c].pc = "idle" /\ callers[c].n < MaxExecutes
    /\ breaker.state = "OPEN" => now - breaker.lastFailureTime > retryAfter
    /\ breaker' = IF breaker.state = "OPEN" THEN [breaker EXCEPT !.state = "HALF_OPEN"]
                  ELSE breaker
    /\ callers' = [callers EXCEPT ![c] = [pc |-> "running", probe |-> breaker.state = "OPEN",
                                          result |-> "", n |-> @.n + 1]]
    /\ UNCHANGED <<now, ticks, serverVars, appVars, retry>>

\* execute after await fn() resolved: if (this.state === 'HALF_OPEN') close()
BreakerSucceed(c) ==
    /\ callers[c].pc = "running"
    /\ breaker' = [(IF breaker.state = "HALF_OPEN" THEN close(breaker) ELSE breaker)
                      EXCEPT !.run = 0]
    /\ callers' = [callers EXCEPT ![c].pc = "idle", ![c].result = "ok"]
    /\ UNCHANGED <<now, ticks, serverVars, appVars, retry>>

\* execute after await fn() threw: this.recordFailure(); throw error
BreakerFail(c) ==
    /\ callers[c].pc = "running"
    /\ breaker' = [recordFailure(breaker) EXCEPT !.run = @ + 1]
    /\ callers' = [callers EXCEPT ![c].pc = "idle", ![c].result = "error"]
    /\ UNCHANGED <<now, ticks, serverVars, appVars, retry>>

\* Date.now() advances: to the end of the retryAfter interval, and a second more
BreakerTickDeltas == {retryAfter, 1}

BreakerTick(d) ==
    /\ ticks < MaxTicksBreaker
    /\ now' = now + d
    /\ ticks' = ticks + 1
    /\ UNCHANGED <<serverVars, sdkVars>>

-----------------------------------------------------------------------------
(* SolanaRPCFallback (sdk/src/types.ts) *)

\* this.endpoints: positions in the configured list
Endpoints == 1..NEndpoints

\* new SolanaRPCFallback(endpoints); healthy is the environment: the
\* endpoints whose getVersion() resolves now; got is what the last call of
\* getConnection returned and the endpoints that passed testConnection in it
NewRpc ==
    [currentIndex |-> 1, failedEndpoints |-> {}, connections |-> {},
     healthy |-> Endpoints,
     got |-> [endpoint |-> 0, passed |-> {}, healthyThen |-> {}], calls |-> 0, changes |-> 0]

\* getConnection, first part: the current endpoint is tested unless it is in
\* failedEndpoints; the endpoints that testConnection has added to
\* failedEndpoints after it
FailedAfterCurrent(f) ==
    IF f.currentIndex \notin f.failedEndpoints /\ f.currentIndex \notin f.healthy
    THEN f.failedEndpoints \cup {f.currentIndex}
    ELSE f.failedEndpoints

\* getConnection, the loop: the endpoints it tests with success, those that
\* are not in failedEndpoints and answer getVersion()
LoopCandidates(f) == {i \in Endpoints : i \notin FailedAfterCurrent(f) /\ i \in f.healthy}

\* the least element of a non-empty set of positions
MinOf(S) == CHOOSE i \in S : \A j \in S : i <= j

\* async getConnection(): Promise<Connection>, the SolanaRPCFallback after it
getConnection(f) ==
    IF f.currentIndex \notin f.failedEndpoints /\ f.currentIndex \in f.healthy
    THEN [f EXCEPT !.connections = @ \cup {f.currentIndex},
                   !.got = [endpoint |-> f.currentIndex, passed |-> {f.currentIndex},
                            healthyThen |-> f.healthy]]
    ELSE IF LoopCandidates(f) # {}
    THEN [f EXCEPT !.currentIndex = MinOf(LoopCandidates(f)),
                   !.failedEndpoints =
                       FailedAfterCurrent(f)
                           \cup {j \in Endpoints : j < MinOf(LoopCandidates(f))},
                   !.connections =
                       @ \cup ({j \in Endpoints : j <= MinOf(LoopCandidates(f))}
                                   \ f.failedEndpoints)
                         \cup ({f.currentIndex} \ f.failedEndpoints),
                   !.got = [endpoint |-> MinOf(LoopCandidates(f)),
                            passed |-> {MinOf(LoopCandidates(f))},
                            healthyThen |-> f.healthy]]
    ELSE [f EXCEPT !.currentIndex = 1,
                   !.failedEndpoints = {},
                   !.connections = @ \cup (Endpoints \ f.failedEndpoints) \cup {1},
                   !.got = [endpoint |-> 1, passed |-> {}, healthyThen |-> f.healthy]]

\* a caller awaits rpcFallback.getConnection()
RpcGetConnection ==
    /\ rpc.calls < MaxGetConnections
    /\ rpc' = [getConnection(rpc) EXCEPT !.calls = @ + 1]
    /\ UNCHANGED <<now, ticks, serverVars, retry, breaker, callers, client, mw>>

\* an RPC endpoint goes down or comes back
RpcHealthChange(e) ==
    /\ rpc.changes < MaxHealthChanges
    /\ rpc' = [rpc EXCEPT !.healthy = IF e \in @ THEN @ \ {e} ELSE @ \cup {e},
                          !.changes = @ + 1]
    /\ UNCHANGED <<now, ticks, serverVars, retry, breaker, callers, client, mw>>

-----------------------------------------------------------------------------
(* ZKPaymentClient.request and makePayment (sdk/src/client.ts) *)

\* no call of request in progress; transfers counts the transfers of the
\* call in progress that reached the chain, ledger those of all calls
NoPayment ==
    [pc |-> "idle", attempt |-> 0, delay |-> 0, transfers |-> 0, ledger |-> 0,
     requests |-> 0]

\* request(options, payer): makePayment starts retryWithBackoff(fn) with the
\* default configuration
ClientRequest ==
    /\ client.pc = "idle" /\ client.requests < MaxRequests
    /\ client' = [client EXCEPT !.pc = "loop", !.attempt = 1,
                                !.delay = DEFAULT_RETRY_CONFIG.baseDelay,
                                !.transfers = 0, !.requests = @ + 1]
    /\ UNCHANGED <<now, ticks, serverVars, retry, breaker, callers, rpc, mw>>

\* retryWithBackoff: catch (error), then if (attempt < config.maxAttempts)
\* sleep, else leave the loop
PaymentCaught(c) ==
    IF c.attempt < DEFAULT_RETRY_CONFIG.maxAttempts
    THEN [c EXCEPT !.pc = "sleep"]
    ELSE [c EXCEPT !.attempt = @ + 1]

\* fn: sendAndConfirmTransaction resolves, the transfer is confirmed
PaymentConfirmed ==
    /\ client.pc = "loop" /\ client.attempt <= DEFAULT_RETRY_CONFIG.maxAttempts
    /\ client' = [client EXCEPT !.pc = "paid", !.transfers = @ + 1, !.ledger = @ + 1]
    /\ UNCHANGED <<now, ticks, serverVars, retry, breaker, callers, rpc, mw>>

\* fn throws before the cluster has the transaction (getConnection, the
\* blockhash request or the send fails)
PaymentNotSent ==
    /\ client.pc = "loop" /\ client.attempt <= DEFAULT_RETRY_CONFIG.maxAttempts
    /\ client' = PaymentCaught(client)
    /\ UNCHANGED <<now, ticks, serverVars, retry, breaker, callers, rpc, mw>>

\* fn throws after the cluster has processed the transaction: the transfer
\* landed and sendAndConfirmTransaction rejects (confirmation times out or
\* the connection drops)
PaymentSentThenError ==
    /\ client.pc = "loop" /\ client.attempt <= DEFAULT_RETRY_CONFIG.maxAttempts
    /\ client' = PaymentCaught([client EXCEPT !.transfers = @ + 1, !.ledger = @ + 1])
    /\ UNCHANGED <<now, ticks, serverVars, retry, breaker, callers, rpc, mw>>

\* retryWithBackoff: await sleep(delay), the next delay, attempt++
PaymentSleep ==
    /\ client.pc = "sleep"
    /\ client' = [client EXCEPT !.pc = "loop", !.attempt = @ + 1,
                                !.delay = Min(client.delay * DEFAULT_RETRY_CONFIG.backoffMultiplier,
                                              DEFAULT_RETRY_CONFIG.maxDelay)]
    /\ UNCHANGED <<now, ticks, serverVars, retry, breaker, callers, rpc, mw>>

\* retryWithBackoff throws after the last attempt, and request with it
PaymentThrow ==
    /\ client.pc = "loop" /\ client.attempt > DEFAULT_RETRY_CONFIG.maxAttempts
    /\ client' = [client EXCEPT !.pc = "thrown"]
    /\ UNCHANGED <<now, ticks, serverVars, retry, breaker, callers, rpc, mw>>

\* request is over: it returned the response (proof generated and sent) or
\* threw
ClientRequestEnds ==
    /\ client.pc \in {"paid", "thrown"}
    /\ client' = [client EXCEPT !.pc = "idle"]
    /\ UNCHANGED <<now, ticks, serverVars, retry, breaker, callers, rpc, mw>>

-----------------------------------------------------------------------------
(* X402ZKMiddleware (sdk/src/middleware.ts) *)

\* the payments clients prove: to the recipient 7/8 or to another one, for a
\* minimum of 1 or of 2
MwPayments ==
    {[Unsigned(Str(m), Str(m), Str(60), Epoch, Epoch - 30) EXCEPT !.RecipientKeyX = k] :
        m \in {1, 2}, k \in {Str(7), Str(5)}}

\* the object in the x-zk-public-inputs header of a client that proved p
PublicInputsOf(p) ==
    [minAmount |-> p.MinAmount, recipientKeyX |-> p.RecipientKeyX,
     recipientKeyY |-> p.RecipientKeyY, maxBlockAge |-> p.MaxBlockAge,
     currentTime |-> p.CurrentTime]

NoPublicInputs ==
    [minAmount |-> <<>>, recipientKeyX |-> <<>>, recipientKeyY |-> <<>>,
     maxBlockAge |-> <<>>, currentTime |-> 0]

\* a header: absent, present with text JSON.parse rejects, or present with
\* the JSON text of data
AbsentHeader(none) == [present |-> FALSE, parses |-> FALSE, data |-> none]

GarbledHeader(none) == [present |-> TRUE, parses |-> FALSE, data |-> none]

JsonHeader(data) == [present |-> TRUE, parses |-> TRUE, data |-> data]

\* req.headers['x-zk-proof']
ProofHeaders ==
    {AbsentHeader(NoProof), GarbledHeader(NoProof)}
        \cup {JsonHeader(Prove("setup1", p)) : p \in MwPayments}

\* req.headers['x-zk-public-inputs']
PublicInputsHeaders ==
    {AbsentHeader(NoPublicInputs), GarbledHeader(NoPublicInputs)}
        \cup {JsonHeader(PublicInputsOf(p)) : p \in MwPayments}
        \cup {JsonHeader([PublicInputsOf(p) EXCEPT !.minAmount = <<>>]) : p \in MwPayments}

\* quickValidation(publicInputs).valid: the fields a verifier needs are there
quickValidation(publicInputs) ==
    /\ publicInputs.minAmount # <<>>
    /\ publicInputs.recipientKeyX # <<>>
    /\ publicInputs.maxBlockAge # <<>>

\* verifyLocally: the public inputs in array format
publicSignals(publicInputs) ==
    <<publicInputs.minAmount, publicInputs.recipientKeyX,
      IF publicInputs.recipientKeyY = <<>> THEN <<"0">> ELSE publicInputs.recipientKeyY,
      publicInputs.maxBlockAge, publicInputs.currentTime>>

\* LocalVerifier.verifyProof(proof, publicSignals): Groth16 verification with
\* the loaded verification key; it throws when no key is loaded
LocalVerifierVerifyProof(vkey, proof, signals) ==
    IF vkey = "" THEN "throws"
    ELSE IF Verify(proof, vkey, signals) THEN "true" ELSE "false"

\* private async verifyProof(proof, publicInputs): JSON.parse of both, then
\* verifyLocally; every exception is caught and reported as not valid
verifyProof(vkey, proof, publicInputs) ==
    IF ~proof.parses \/ ~publicInputs.parses
    THEN [valid |-> FALSE, error |-> "Unexpected token"]
    ELSE IF ~quickValidation(publicInputs.data)
    THEN [valid |-> FALSE, error |-> "Invalid public inputs"]
    ELSE IF LocalVerifierVerifyProof(vkey, proof.data, publicSignals(publicInputs.data)) = "throws"
    THEN [valid |-> FALSE, error |-> "Cryptographic verification failed"]
    ELSE [valid |-> LocalVerifierVerifyProof(vkey, proof.data,
                                             publicSignals(publicInputs.data)) = "true",
          error |-> ""]

\* new X402ZKMiddleware(solanaRpcUrl, verifierProgramId): no verification key
\* loaded, no request in progress; nextCalls counts the calls of next()
NewMiddleware ==
    [pc |-> "idle", vkey |-> "", proof |-> AbsentHeader(NoProof),
     publicInputs |-> AbsentHeader(NoPublicInputs),
     result |-> [valid |-> FALSE, error |-> ""], status |-> 0, nextCalls |-> 0,
     served |-> 0]

\* async loadVerificationKey(vkey)
MwLoadVerificationKey(vkey) ==
    /\ mw.pc = "idle" /\ mw.vkey # vkey
    /\ mw' = [mw EXCEPT !.vkey = vkey]
    /\ UNCHANGED <<now, ticks, serverVars, retry, breaker, callers, rpc, client>>

\* a request for a route of paidRouter arrives
MwArrive(proof, publicInputs) ==
    /\ mw.pc = "idle" /\ mw.served < MaxMwRequests
    /\ mw' = [mw EXCEPT !.pc = "headers", !.proof = proof, !.publicInputs = publicInputs,
                        !.result = [valid |-> FALSE, error |-> ""], !.status = 0,
                        !.nextCalls = 0, !.served = @ + 1]
    /\ UNCHANGED <<now, ticks, serverVars, retry, breaker, callers, rpc, client>>

\* middleware: if (!proof || !publicInputs) return res.status(402)
MwCheckHeaders ==
    /\ mw.pc = "headers"
    /\ mw' = IF ~mw.proof.present \/ ~mw.publicInputs.present
             THEN [mw EXCEPT !.pc = "done", !.status = 402]
             ELSE [mw EXCEPT !.pc = "verify"]
    /\ UNCHANGED <<now, ticks, serverVars, retry, breaker, callers, rpc, client>>

\* MwVerify calling next() whatever verifyProof returned
MwVerifyIgnoresResult ==
    /\ mw.pc = "verify"
    /\ mw' = [mw EXCEPT !.pc = "handler", !.nextCalls = @ + 1,
                        !.result = verifyProof(mw.vkey, mw.proof, mw.publicInputs)]
    /\ UNCHANGED <<now, ticks, serverVars, retry, breaker, callers, rpc, client>>

\* middleware: result = await this.verifyProof(...); 402 unless result.valid,
\* else next()
MwVerify ==
    /\ mw.pc = "verify"
    /\ mw' = IF ~verifyProof(mw.vkey, mw.proof, mw.publicInputs).valid
             THEN [mw EXCEPT !.pc = "done", !.status = 402,
                             !.result = verifyProof(mw.vkey, mw.proof, mw.publicInputs)]
             ELSE [mw EXCEPT !.pc = "handler", !.nextCalls = @ + 1,
                             !.result = verifyProof(mw.vkey, mw.proof, mw.publicInputs)]
    /\ UNCHANGED <<now, ticks, serverVars, retry, breaker, callers, rpc, client>>

\* the route's handler answers: res.json(...)
MwHandler ==
    /\ mw.pc = "handler"
    /\ mw' = [mw EXCEPT !.pc = "done", !.status = 200]
    /\ UNCHANGED <<now, ticks, serverVars, retry, breaker, callers, rpc, client>>

\* the response is sent; the server takes the next request
MwFinish ==
    /\ mw.pc = "done"
    /\ mw' = [mw EXCEPT !.pc = "idle"]
    /\ UNCHANGED <<now, ticks, serverVars, retry, breaker, callers, rpc, client>>

\* the objects of the SDK's client, fallback and middleware as constructed
InitApp ==
    /\ rpc = NewRpc
    /\ client = NoPayment
    /\ mw = NewMiddleware

\* GetProof has not been called
NoGot == [r |-> NoRequest, found |-> FALSE, resp |-> NoResp, storedFor |-> NoRequest,
          expires_at |-> 0]

\* the ProofDatabase as initialized: an empty table
InitDb ==
    /\ proofs = << >>
    /\ dbGot = NoGot

\* the SDK objects as constructed, no call in progress
InitSdk ==
    /\ retry = NoRetry
    /\ breaker = NewBreaker
    /\ callers = [c \in Callers |-> NoCall]
    /\ InitApp

-----------------------------------------------------------------------------
(* The proof cache on its own: goroutines calling Get, Set and Stats, the
   sweep and the clock.  Set and the sweep hold pc.mu.Lock() from their first
   access to their last, so each is one step, taken when nobody holds the
   lock; Get and Stats hold pc.mu.RLock(), which readers share, so their
   accesses are steps of their own. *)

Gors == 1..NGor

NoStats == [size |-> 0, maxSize |-> 0, totalAccess |-> 0, ttlSeconds |-> 0]

\* a goroutine that is in no cache call
Resting ==
    [pc |-> "idle", op |-> "", r |-> NoRequest, val |-> 0, found |-> FALSE,
     resp |-> NoResp, stats |-> NoStats, n |-> 0]

\* the public fields the cache is called with: the first two differ in
\* minAmount and in the recipient key and have the same concatenation
CacheRequests ==
    {[Unsigned(Str(1), Str(2), Str(60), Epoch, Epoch - 30) EXCEPT !.RecipientKeyX = Str(27)],
     [Unsigned(Str(12), Str(12), Str(60), Epoch, Epoch - 30) EXCEPT !.RecipientKeyX = Str(7)],
     Unsigned(Str(2), Str(2), Str(60), Epoch, Epoch - 30),
     Unsigned(Str(3), Str(3), Str(60), Epoch, Epoch - 30)}

\* the ProofResponse the handler stores for request r
ResponseFor(r) ==
    [Proof |-> Prove(provingKey, r),
     PublicInputs |-> <<r.MinAmount, r.RecipientKeyX, r.RecipientKeyY, r.MaxBlockAge,
                        Sprintf(r.CurrentTime)>>,
     GenerationTime |-> 0]

\* func (pc *ProofCache) Set(req, resp): Lock, evict, insert, Unlock
CacheSet(g, r) ==
    /\ gor[g].pc = "idle" /\ gor[g].n < MaxCacheOps
    /\ mu = {}
    /\ cache' \in Set(r, ResponseFor(r))
    /\ gor' = [gor EXCEPT ![g] = [Resting EXCEPT !.op = "Set", !.r = r, !.n = gor[g].n + 1]]
    /\ UNCHANGED <<apiKey, dbVars, sdkVars, now, ticks, buckets, provingKey, verifyingKey, req, arrivals,
                   allowLog, rlCalls, cacheMaxSize, mu>>

\* Get: pc.mu.RLock()
GetRLock(g, r) ==
    /\ gor[g].pc = "idle" /\ gor[g].n < MaxCacheOps
    /\ mu' = mu \cup {g}
    /\ gor' = [gor EXCEPT ![g] = [Resting EXCEPT !.pc = "lookup", !.op = "Get", !.r = r,
                                                 !.n = gor[g].n + 1]]
    /\ UNCHANGED <<apiKey, dbVars, sdkVars, now, ticks, buckets, cache, provingKey, verifyingKey, req, arrivals,
                   allowLog, rlCalls, cacheMaxSize>>

\* Get: cached, exists := pc.cache[key] and the expiry check
GetLookup(g) ==
    /\ gor[g].pc = "lookup"
    /\ gor' = [gor EXCEPT ![g].pc = IF GetFound(gor[g].r) THEN "load" ELSE "unlock"]
    /\ UNCHANGED <<apiKey, dbVars, sdkVars, now, ticks, buckets, cache, provingKey, verifyingKey, req, arrivals,
                   allowLog, rlCalls, cacheMaxSize, mu>>

\* Get: cached.AccessCount++, the read of the counter
GetLoad(g) ==
    /\ gor[g].pc = "load"
    /\ gor' = [gor EXCEPT ![g].pc = "store",
                          ![g].val = cache[generateCacheKey(gor[g].r)].AccessCount]
    /\ UNCHANGED <<apiKey, dbVars, sdkVars, now, ticks, buckets, cache, provingKey, verifyingKey, req, arrivals,
                   allowLog, rlCalls, cacheMaxSize, mu>>

\* Get: cached.AccessCount++, the write of the counter, and the response
GetStore(g) ==
    /\ gor[g].pc = "store"
    /\ cache' = [cache EXCEPT ![generateCacheKey(gor[g].r)].AccessCount = gor[g].val + 1]
    /\ gor' = [gor EXCEPT ![g].pc = "unlock", ![g].found = TRUE,
                          ![g].resp = GetResponse(gor[g].r)]
    /\ UNCHANGED <<apiKey, dbVars, sdkVars, now, ticks, buckets, provingKey, verifyingKey, req, arrivals,
                   allowLog, rlCalls, cacheMaxSize, mu>>

\* func (pc *ProofCache) Stats(): pc.mu.RLock()
StatsRLock(g) ==
    /\ gor[g].pc = "idle" /\ gor[g].n < MaxCacheOps
    /\ mu' = mu \cup {g}
    /\ gor' = [gor EXCEPT ![g] = [Resting EXCEPT !.pc = "sum", !.op = "Stats",
                                                 !.n = gor[g].n + 1]]
    /\ UNCHANGED <<apiKey, dbVars, sdkVars, now, ticks, buckets, cache, provingKey, verifyingKey, req, arrivals,
                   allowLog, rlCalls, cacheMaxSize>>

\* totalAccess += cached.AccessCount over the entries of c
RECURSIVE TotalAccess(_)
TotalAccess(c) ==
    IF DOMAIN c = {} THEN 0
    ELSE LET k == CHOOSE j \in DOMAIN c : TRUE
         IN  c[k].AccessCount + TotalAccess([j \in DOMAIN c \ {k} |-> c[j]])

\* Stats: the loop over the entries and the map it returns
StatsSum(g) ==
    /\ gor[g].pc = "sum"
    /\ gor' = [gor EXCEPT ![g].pc = "unlock",
                          ![g].stats = [size |-> Cardinality(DOMAIN cache),
                                        maxSize |-> cacheMaxSize,
                                        totalAccess |-> TotalAccess(cache),
                                        ttlSeconds |-> ttl]]
    /\ UNCHANGED <<apiKey, dbVars, sdkVars, now, ticks, buckets, cache, provingKey, verifyingKey, req, arrivals,
                   allowLog, rlCalls, cacheMaxSize, mu>>

\* Get and Stats: the deferred pc.mu.RUnlock()
RUnlock(g) ==
    /\ gor[g].pc = "unlock"
    /\ mu' = mu \ {g}
    /\ gor' = [gor EXCEPT ![g].pc = "idle"]
    /\ UNCHANGED <<apiKey, dbVars, sdkVars, now, ticks, buckets, cache, provingKey, verifyingKey, req, arrivals,
                   allowLog, rlCalls, cacheMaxSize>>

\* clock advances offered to the cache: within the TTL, and past it
TickDeltasCache == {1, 3601}

CacheTick(d) ==
    /\ ticks < MaxTicksCache
    /\ now' = now + d
    /\ ticks' = ticks + 1
    /\ UNCHANGED <<apiKey, dbVars, sdkVars, buckets, cache, provingKey, verifyingKey, req, arrivals, allowLog,
                   rlCalls, lockVars>>

\* NewProofCache(CacheCap, time.Hour)
InitCache ==
    /\ now = Epoch
    /\ ticks = 0
    /\ buckets = << >>
    /\ cache = << >>
    /\ provingKey = "setup1"
    /\ verifyingKey = "setup1"
    /\ req = [i \in Slots |-> Idle]
    /\ arrivals = 0
    /\ allowLog = [ip \in IPs |-> << >>]
    /\ rlCalls = 0
    /\ cacheMaxSize = CacheCap
    /\ mu = {}
    /\ gor = [g \in Gors |-> Resting]
    /\ apiKey = <<>>
    /\ InitDb
    /\ InitSdk

NextCache ==
    \/ \E g \in Gors, r \in CacheRequests : CacheSet(g, r)
    \/ \E g \in Gors, r \in CacheRequests : GetRLock(g, r)
    \/ \E g \in Gors : GetLookup(g)
    \/ \E g \in Gors : GetLoad(g)
    \/ \E g \in Gors : GetStore(g)
    \/ \E g \in Gors : StatsRLock(g)
    \/ \E g \in Gors : StatsSum(g)
    \/ \E g \in Gors : RUnlock(g)
    \/ \E d \in TickDeltasCache : CacheTick(d)
    \/ CacheCleanup

SpecCache == InitCache /\ [][NextCache]_vars

-----------------------------------------------------------------------------
(* The rate limiter on its own: Allow calls, the clock, the cleanup loop *)

\* clock advances offered to the rate limiter: within a period, one period,
\* and longer than the idle limit
TickDeltasRL == {30, 60, 660}

InitRL ==
    /\ now = Epoch
    /\ ticks = 0
    /\ buckets = << >>
    /\ cache = << >>
    /\ provingKey = "setup1"
    /\ verifyingKey = "setup1"
    /\ req = [i \in Slots |-> Idle]
    /\ arrivals = 0
    /\ allowLog = [ip \in IPs |-> << >>]
    /\ rlCalls = 0
    /\ cacheMaxSize = maxSize
    /\ mu = {}
    /\ gor = [g \in Gors |-> Resting]
    /\ apiKey = <<>>
    /\ InitDb
    /\ InitSdk

\* func (rl *RateLimiter) Allow(ip string) bool, with its result recorded
RLAllow(ip) ==
    /\ rlCalls < MaxCalls
    /\ buckets' = BucketsAfterAllow(ip)
    /\ allowLog' = [allowLog EXCEPT ![ip] = Append(@, LogEntry(ip))]
    /\ rlCalls' = rlCalls + 1
    /\ UNCHANGED <<apiKey, dbVars, sdkVars, now, ticks, cache, provingKey, verifyingKey, req, arrivals, lockVars>>

\* the wall clock advances
RLTick(d) ==
    /\ ticks < MaxTicksRL
    /\ now' = now + d
    /\ ticks' = ticks + 1
    /\ UNCHANGED <<apiKey, dbVars, sdkVars, buckets, cache, provingKey, verifyingKey, req, arrivals, allowLog, rlCalls, lockVars>>

\* func (rl *RateLimiter) cleanup(): one firing of the ticker
RLCleanup ==
    /\ now >= Epoch + cleanupInterval
    /\ buckets' = BucketsAfterCleanup
    /\ UNCHANGED <<apiKey, dbVars, sdkVars, now, ticks, cache, provingKey, verifyingKey, req, arrivals, allowLog, rlCalls, lockVars>>

NextRL ==
    \/ \E ip \in IPs : RLAllow(ip)
    \/ \E d \in TickDeltasRL : RLTick(d)
    \/ RLCleanup

SpecRL == InitRL /\ [][NextRL]_vars

-----------------------------------------------------------------------------
(* The service *)

\* main(): initializeCircuit loads the proving and the verifying key from
\* their two files when both exist (nothing checks that they belong
\* together) or runs groth16.Setup; then the rate limiter and the cache are
\* constructed empty.
Init ==
    /\ now = Epoch
    /\ ticks = 0
    /\ buckets = << >>
    /\ cache = << >>
    /\ provingKey = "setup1"
    /\ verifyingKey \in {"setup1", "setup2"}
    /\ req = [i \in Slots |-> Idle]
    /\ arrivals = 0
    /\ allowLog = [ip \in IPs |-> << >>]
    /\ rlCalls = 0
    /\ cacheMaxSize = maxSize
    /\ mu = {}
    /\ gor = [g \in Gors |-> Resting]
    /\ apiKey = <<>>
    /\ InitDb
    /\ InitSdk

Next ==
    \/ \E i \in Slots : Arrive(i)
    \/ \E i \in Slots : RateLimitStep(i)
    \/ \E i \in Slots : ValidateStep(i)
    \/ \E i \in Slots : CacheLookupStep(i)
    \/ \E i \in Slots : PreVerifyStep(i)
    \/ \E i \in Slots : ProveStep(i)
    \/ \E i \in Slots : SanityStep(i)
    \/ \E i \in Slots : StoreStep(i)
    \/ \E i \in Slots : RespondStep(i)
    \/ \E i \in Slots : Finish(i)
    \/ \E ip \in Clients : HealthFlood(ip)
    \/ \E d \in TickDeltas : Tick(d)
    \/ CacheCleanup
    \/ RLCleanup

Spec == Init /\ [][Next]_vars

-----------------------------------------------------------------------------
(* The handler on chosen inputs: two requests with the same public fields,
   received together by the freshly started service *)

\* 2^64
TwoTo64 ==
    <<"1", "8", "4", "4", "6", "7", "4", "4", "0", "7",
      "3", "7", "0", "9", "5", "5", "1", "6", "1", "6">>

\* a digit string one character longer than the validator's limit
OverLong == [k \in 1..(maxFieldLen + 1) |-> "1"]

\* strings a client may put in any field: none, no number, too long, too large
OddStrings == {<<>>, <<"x">>, OverLong, TwoTo64}

\* and in an amount: zero, zero with a leading zero, a number with one, and a
\* number with a minus sign
OddAmounts == OddStrings \cup {<<"0">>, <<"0", "0">>, <<"0", "2">>, <<"-", "1">>}

InputBase(t) == Unsigned(Str(1), Str(2), Str(60), t, t - 30)

\* the base request with one string field replaced
FieldInputs(t) ==
    {[InputBase(t) EXCEPT !.MinAmount = v] : v \in OddAmounts}
    \cup {[InputBase(t) EXCEPT !.ActualAmount = v] : v \in OddAmounts}
    \cup {[InputBase(t) EXCEPT !.MaxBlockAge = v] : v \in OddStrings \cup {<<"-", "1">>}}
    \cup {[InputBase(t) EXCEPT !.RecipientKeyX = v] : v \in OddStrings}
    \cup {[InputBase(t) EXCEPT !.RecipientKeyY = v] : v \in OddStrings}
    \cup {[InputBase(t) EXCEPT !.SenderKeyX = v] : v \in OddStrings}
    \cup {[InputBase(t) EXCEPT !.SenderKeyY = v] : v \in OddStrings}
    \cup {[InputBase(t) EXCEPT !.SignatureR8X = v] : v \in OddStrings}
    \cup {[InputBase(t) EXCEPT !.SignatureR8Y = v] : v \in OddStrings}
    \cup {[InputBase(t) EXCEPT !.SignatureS = v] : v \in OddStrings}

\* the base request with timestamps at and around the ends of the window
TimeInputs(t) ==
    {[InputBase(t) EXCEPT !.CurrentTime = c, !.PaymentTime = q] :
        c \in {t - pastWindow - 1, t - pastWindow, t, t + futureWindow, t + futureWindow + 1},
        q \in {t - pastWindow - 1, t - pastWindow, t - 30, t + futureWindow,
               t + futureWindow + 1}}

\* the base request with two faults: a field the validator reads and a second
\* field that is no number, missing or late
FaultyInputs(t) ==
    {[InputBase(t) EXCEPT !.MinAmount = <<"0">>, !.SenderKeyX = <<"x">>],
     [InputBase(t) EXCEPT !.MinAmount = <<"0">>, !.CurrentTime = t - pastWindow - 1],
     [InputBase(t) EXCEPT !.MinAmount = OverLong, !.SenderKeyY = <<>>],
     [InputBase(t) EXCEPT !.ActualAmount = <<"x">>, !.PaymentTime = t + futureWindow + 1],
     [InputBase(t) EXCEPT !.SignatureR8X = OverLong, !.CurrentTime = t + futureWindow + 1]}

\* the base request in a body whose fields have other JSON types
WrongTypeInputs(t) == {[InputBase(t) EXCEPT !.jsonOK = FALSE]}

\* the requests of the first client, each signed by its sender unless the
\* signature scalar is the odd field
Inputs(t) ==
    {IF r.SignatureS = InputBase(t).SignatureS THEN Signed(r) ELSE r :
        r \in {InputBase(t)} \cup FieldInputs(t) \cup TimeInputs(t)
                  \cup FaultyInputs(t) \cup WrongTypeInputs(t)}

\* requests with the public fields of r: r itself, one for another amount,
\* one for another payment time, and one with a wrong signature
PrivateVariants(r) ==
    {r, Signed([r EXCEPT !.ActualAmount = Str(3)]),
     Signed([r EXCEPT !.PaymentTime = r.PaymentTime - 1]), Forged(r)}

\* the arguments of the %s and %d verbs joined by ":"
RECURSIVE Joined(_)
Joined(parts) ==
    IF Len(parts) = 1 THEN parts[1]
    ELSE parts[1] \o <<":">> \o Joined(Tail(parts))

\* the bytes of the request that the 64 hexadecimal digits kept stand for
requestHashBytes == 32

\* func generateRequestHash(req *ProofRequest) string: the hexadecimal digits
\* of the first bytes of the formatted request (two digits a byte, kept here
\* as the bytes); hash[:64] panics on a shorter string.  The keys and the
\* signature are their parts in order, and a ProofRequest has no TxHash.
generateRequestHash(r) ==
    LET data == Joined(<<r.MinAmount, r.RecipientKeyX \o r.RecipientKeyY, r.MaxBlockAge,
                         Sprintf(r.CurrentTime), r.ActualAmount,
                         r.SenderKeyX \o r.SenderKeyY, <<>>, Sprintf(r.PaymentTime),
                         r.SignatureR8X \o r.SignatureR8Y \o r.SignatureS>>)
    IN  IF Len(data) < requestHashBytes THEN [panic |-> TRUE, hex |-> <<>>]
        ELSE [panic |-> FALSE, hex |-> SubSeq(data, 1, requestHashBytes)]

\* func logProofGeneration(clientIP, minAmount, actualAmount, duration, success):
\* the record it emits
logProofGeneration(clientIP, minAmount, actualAmount, duration, success) ==
    [client_ip |-> clientIP, min_amount |-> minAmount, actual_amount |-> actualAmount,
     duration_ms |-> duration, success |-> success, operation |-> "proof_generation",
     level |-> IF success THEN "info" ELSE "error",
     message |-> IF success THEN "Proof generated successfully" ELSE "Proof generation failed"]

InitInputs ==
    /\ now = Epoch
    /\ ticks = 0
    /\ buckets = << >>
    /\ cache = << >>
    /\ provingKey = "setup1"
    /\ verifyingKey = "setup1"
    /\ \E r \in Inputs(Epoch) : \E v \in PrivateVariants(r) :
          req = [i \in Slots |->
                    IF i = 1 THEN [Idle EXCEPT !.pc = "ratelimit", !.ip = "ip1", !.r = r]
                    ELSE IF i = 2 THEN [Idle EXCEPT !.pc = "ratelimit", !.ip = "ip1", !.r = v]
                    ELSE Idle]
    /\ arrivals = 2
    /\ allowLog = [ip \in IPs |-> << >>]
    /\ rlCalls = 0
    /\ cacheMaxSize = maxSize
    /\ mu = {}
    /\ gor = [g \in Gors |-> Resting]
    /\ apiKey = <<>>
    /\ InitDb
    /\ InitSdk

NextInputs ==
    \/ \E i \in Slots : RateLimitStep(i)
    \/ \E i \in Slots : ValidateStep(i)
    \/ \E i \in Slots : CacheLookupStep(i)
    \/ \E i \in Slots : PreVerifyStep(i)
    \/ \E i \in Slots : ProveStep(i)
    \/ \E i \in Slots : SanityStep(i)
    \/ \E i \in Slots : StoreStep(i)
    \/ \E i \in Slots : RespondStep(i)

SpecInputs == InitInputs /\ [][NextInputs]_vars

-----------------------------------------------------------------------------
(* The router of main: the rate-limit middleware on every route, the
   generate-proof handler and the cache-introspection handler, with the
   process's API key and each request's Authorization header *)

\* "Bearer " as characters
BearerPrefix == <<"B", "e", "a", "r", "e", "r", " ">>

\* two API keys
Key1 == <<"k", "1">>
Key2 == <<"k", "2">>

\* the Authorization headers a client sends: none, the two keys as bearer
\* tokens, a key under another scheme, the scheme alone
Headers ==
    {<<>>, BearerPrefix \o Key1, BearerPrefix \o Key2,
     <<"B", "a", "s", "i", "c", " ">> \o Key1, <<"B", "e", "a", "r", "e", "r">>}

\* strings.SplitN(s, " ", 2)
SplitN2(s) ==
    IF \E k \in 1..Len(s) : s[k] = " "
    THEN LET k == CHOOSE j \in 1..Len(s) : s[j] = " " /\ \A h \in 1..(j - 1) : s[h] # " "
         IN  <<SubSeq(s, 1, k - 1), SubSeq(s, k + 1, Len(s))>>
    ELSE <<s>>

\* func authMiddleware() gin.HandlerFunc, for the API key of the environment
\* and the Authorization header of a request: status 0 is c.Next().  main
\* does not install it on the router.
authMiddleware(key, header) ==
    IF key = <<>> THEN [status |-> 0, error |-> ""]
    ELSE IF header = <<>> THEN [status |-> 401, error |-> "Missing Authorization header"]
    ELSE IF Len(SplitN2(header)) # 2 \/ SplitN2(header)[1] # <<"B", "e", "a", "r", "e", "r">>
    THEN [status |-> 401,
          error |-> "Invalid Authorization header format. Expected: 'Bearer <token>'"]
    ELSE IF SplitN2(header)[2] # key THEN [status |-> 401, error |-> "Invalid API key"]
    ELSE [status |-> 0, error |-> ""]

\* GET /cache/stats: router.Use(rateLimitMiddleware()) runs Allow(clientIP),
\* then cacheStatsHandler calls proofCache.Stats(), which reads the cache
\* under the read lock
CacheStatsRequest(ip) ==
    /\ rlCalls < MaxStatsCalls
    /\ buckets' = BucketsAfterAllow(ip)
    /\ allowLog' = [allowLog EXCEPT ![ip] = Append(@, LogEntry(ip))]
    /\ rlCalls' = rlCalls + 1
    /\ UNCHANGED <<apiKey, dbVars, sdkVars, now, ticks, cache, provingKey, verifyingKey, req,
                   arrivals, lockVars>>

\* the service started with or without an API key, and two generate-proof
\* requests received together: any request with any header, and a valid one
\* with any header
InitRouter ==
    /\ now = Epoch
    /\ ticks = 0
    /\ buckets = << >>
    /\ cache = << >>
    /\ provingKey = "setup1"
    /\ verifyingKey = "setup1"
    /\ \E r \in Requests(Epoch), h1, h2 \in Headers :
          req = [i \in Slots |->
                    IF i = 1
                    THEN [Idle EXCEPT !.pc = "ratelimit", !.ip = "ip1", !.auth = h1, !.r = r]
                    ELSE IF i = 2
                    THEN [Idle EXCEPT !.pc = "ratelimit", !.ip = "ip1", !.auth = h2,
                                      !.r = Signed(InputBase(Epoch))]
                    ELSE Idle]
    /\ arrivals = 2
    /\ allowLog = [ip \in IPs |-> << >>]
    /\ rlCalls = 0
    /\ cacheMaxSize = maxSize
    /\ mu = {}
    /\ gor = [g \in Gors |-> Resting]
    /\ apiKey \in {<<>>, Key1}
    /\ InitDb
    /\ InitSdk

NextRouter ==
    \/ \E i \in Slots : RateLimitStep(i)
    \/ \E i \in Slots : ValidateStep(i)
    \/ \E i \in Slots : CacheLookupStep(i)
    \/ \E i \in Slots : PreVerifyStep(i)
    \/ \E i \in Slots : ProveStep(i)
    \/ \E i \in Slots : SanityStep(i)
    \/ \E i \in Slots : StoreStep(i)
    \/ \E i \in Slots : RespondStep(i)
    \/ \E ip \in IPs : CacheStatsRequest(ip)

SpecRouter == InitRouter /\ [][NextRouter]_vars

-----------------------------------------------------------------------------
(* The SDK helpers on their own *)

\* the prover as started, idle
ServerIdle ==
    /\ buckets = << >>
    /\ cache = << >>
    /\ provingKey = "setup1"
    /\ verifyingKey = "setup1"
    /\ req = [i \in Slots |-> Idle]
    /\ arrivals = 0
    /\ allowLog = [ip \in IPs |-> << >>]
    /\ rlCalls = 0
    /\ cacheMaxSize = maxSize
    /\ mu = {}
    /\ gor = [g \in Gors |-> Resting]
    /\ apiKey = <<>>
    /\ InitDb

\* one call retryWithBackoff(fn, config) for each configuration
InitRetry ==
    /\ now = Epoch
    /\ ticks = 0
    /\ ServerIdle
    /\ retry \in {RetryStart(config) : config \in RetryConfigs}
    /\ breaker = NewBreaker
    /\ callers = [c \in Callers |-> NoCall]
    /\ InitApp

NextRetry ==
    \/ RetryInvokeReturns
    \/ RetryInvokeThrows
    \/ RetrySleep
    \/ RetryThrow

SpecRetry == InitRetry /\ [][NextRetry]_vars

\* the prover idle and the SDK's and the database's objects as constructed
InitIdle ==
    /\ now = Epoch
    /\ ticks = 0
    /\ ServerIdle
    /\ InitSdk

NextBreaker ==
    \/ \E c \in Callers : BreakerReject(c)
    \/ \E c \in Callers : BreakerInvoke(c)
    \/ \E c \in Callers : BreakerSucceed(c)
    \/ \E c \in Callers : BreakerFail(c)
    \/ \E d \in BreakerTickDeltas : BreakerTick(d)

SpecBreaker == InitIdle /\ [][NextBreaker]_vars

NextRpc ==
    \/ RpcGetConnection
    \/ \E e \in Endpoints : RpcHealthChange(e)

SpecRpc == InitIdle /\ [][NextRpc]_vars

NextClient ==
    \/ ClientRequest
    \/ PaymentConfirmed
    \/ PaymentNotSent
    \/ PaymentSentThenError
    \/ PaymentSleep
    \/ PaymentThrow
    \/ ClientRequestEnds

SpecClient == InitIdle /\ [][NextClient]_vars

NextMiddleware ==
    \/ \E vkey \in {"setup1", "setup2"} : MwLoadVerificationKey(vkey)
    \/ \E proof \in ProofHeaders, publicInputs \in PublicInputsHeaders :
          MwArrive(proof, publicInputs)
    \/ MwCheckHeaders
    \/ MwVerify
    \/ MwHandler
    \/ MwFinish

SpecMiddleware == InitIdle /\ [][NextMiddleware]_vars

-----------------------------------------------------------------------------
(* The ProofDatabase on its own *)

\* a recipient key long enough for the formatted request to fill the hash
LongKey == [k \in 1..requestHashBytes |-> "7"]

DbBase == [Unsigned(Str(1), Str(2), Str(60), Epoch, Epoch - 30) EXCEPT !.RecipientKeyX = LongKey]

\* the requests the database is called with: one, the same with another
\* actualAmount, with another maxBlockAge, and with another minAmount
DbRequests ==
    {DbBase,
     [DbBase EXCEPT !.ActualAmount = Str(3)],
     [DbBase EXCEPT !.MaxBlockAge = Str(90)],
     [DbBase EXCEPT !.MinAmount = Str(2)]}

\* the ttl arguments (d) of StoreProof, seconds
DbTtls == {60}

\* the row StoreProof writes; storedFor is history: the request of the call
ProofRow(r, resp, clientIP, d) ==
    [proof |-> resp.Proof, public_inputs |-> resp.PublicInputs, client_ip |-> clientIP,
     generation_time_ms |-> resp.GenerationTime, expires_at |-> now + d,
     storedFor |-> r]

\* func (pdb *ProofDatabase) StoreProof(req, resp, clientIP, ttl):
\* INSERT OR REPLACE on the unique request_hash
StoreProof(r, resp, clientIP, d) ==
    /\ ~generateRequestHash(r).panic
    /\ proofs' = [h \in DOMAIN proofs \cup {generateRequestHash(r).hex} |->
                     IF h = generateRequestHash(r).hex
                     THEN ProofRow(r, resp, clientIP, d)
                     ELSE proofs[h]]
    /\ UNCHANGED <<now, ticks, buckets, cache, provingKey, verifyingKey, req, arrivals,
                   allowLog, rlCalls, lockVars, apiKey, dbGot, sdkVars>>

\* the row GetProof selects: WHERE request_hash = ? AND expires_at > now
RowFound(r) ==
    /\ generateRequestHash(r).hex \in DOMAIN proofs
    /\ proofs[generateRequestHash(r).hex].expires_at > now

\* func (pdb *ProofDatabase) GetProof(req): (response, true) for a row that
\* has not expired, (nil, false) otherwise
GetProof(r) ==
    /\ ~generateRequestHash(r).panic
    /\ dbGot' = IF RowFound(r)
                THEN [r |-> r, found |-> TRUE,
                      resp |-> [Proof |-> proofs[generateRequestHash(r).hex].proof,
                                PublicInputs |->
                                    proofs[generateRequestHash(r).hex].public_inputs,
                                GenerationTime |-> 0],
                      storedFor |-> proofs[generateRequestHash(r).hex].storedFor,
                      expires_at |-> proofs[generateRequestHash(r).hex].expires_at]
                ELSE [NoGot EXCEPT !.r = r]
    /\ UNCHANGED <<now, ticks, buckets, cache, provingKey, verifyingKey, req, arrivals,
                   allowLog, rlCalls, lockVars, apiKey, proofs, sdkVars>>

\* func (pdb *ProofDatabase) CleanupExpiredProofs():
\* DELETE FROM proofs WHERE expires_at < now
CleanupExpiredProofs ==
    /\ \E h \in DOMAIN proofs : proofs[h].expires_at < now
    /\ proofs' = [h \in {k \in DOMAIN proofs : ~(proofs[k].expires_at < now)} |-> proofs[h]]
    /\ UNCHANGED <<now, ticks, buckets, cache, provingKey, verifyingKey, req, arrivals,
                   allowLog, rlCalls, lockVars, apiKey, dbGot, sdkVars>>

\* clock advances offered to the database
DbTickDeltas == {60, 61}

DbTick(d) ==
    /\ ticks < MaxTicksDb
    /\ now' = now + d
    /\ ticks' = ticks + 1
    /\ UNCHANGED <<serverVars, sdkVars>>

NextDatabase ==
    \/ \E r \in DbRequests, ip \in Clients, d \in DbTtls : StoreProof(r, ResponseFor(r), ip, d)
    \/ \E r \in DbRequests : GetProof(r)
    \/ CleanupExpiredProofs
    \/ \E d \in DbTickDeltas : DbTick(d)

SpecDatabase == InitIdle /\ [][NextDatabase]_vars

-----------------------------------------------------------------------------
(* Vocabulary of the properties *)

\* the stages of a request that generates a fresh proof, in order
FullRun ==
    << <<"ratelimit", "pass">>, <<"validate", "pass">>, <<"cache", "miss">>,
       <<"preverify", "pass">>, <<"prove", "pass">>, <<"sanity", "pass">>,
       <<"store", "pass">>, <<"respond", "pass">> >>

\* the stages of a request answered from the cache
HitRun ==
    << <<"ratelimit", "pass">>, <<"validate", "pass">>, <<"cache", "hit">>,
       <<"respond", "pass">> >>

\* the first n stages passed and stage n+1 failed
FailedAt(n) == SubSeq(FullRun, 1, n) \o << <<FullRun[n + 1][1], "fail">> >>

LastStage(i) == req[i].stages[Len(req[i].stages)]

Ran(i, stage) == \E k \in 1..Len(req[i].stages) : req[i].stages[k][1] = stage

Passed(i, stage) == \E k \in 1..Len(req[i].stages) : req[i].stages[k] = <<stage, "pass">>

FailedIn(i, stage) == req[i].pc = "done" /\ LastStage(i) = <<stage, "fail">>

\* the public witness a response's public-input strings stand for
PublicOf(inputs) ==
    <<inputs[1], inputs[2], inputs[3], inputs[4], DecimalValue(inputs[5])>>

-----------------------------------------------------------------------------
(* C1: the stages of every generate-proof request occur in the fixed order
   rate limit, validation, cache lookup, signature pre-verification, proving,
   sanity verification, cache store, success response; a stage runs only
   after every earlier one passed (the cache lookup having missed), the first
   failing stage ends the request, and no stage runs twice. *)
StagesInOrder ==
    \A i \in Slots :
        /\ \/ \E n \in 0..Len(FullRun) : req[i].stages = SubSeq(FullRun, 1, n)
           \/ \E n \in 0..(Len(FullRun) - 1) : req[i].stages = FailedAt(n)
           \/ req[i].stages = HitRun
        /\ req[i].pc = "done" <=>
              \/ req[i].stages \in {FullRun, HitRun}
              \/ req[i].stages # <<>> /\ LastStage(i)[2] = "fail"
        /\ req[i].pc \notin {"idle", "done"} =>
              req[i].pc = FullRun[Len(req[i].stages) + 1][1]

\* a request has gone through every stage and was answered 200
StagesInOrderWitness ==
    \E i \in Slots : req[i].pc = "done" /\ req[i].stages = FullRun /\ req[i].status = 200

-----------------------------------------------------------------------------
(* C2: a fresh proof is returned and cached only after it passed sanity
   verification; a request whose sanity verification failed ends with an
   internal error and no proof, and every entry of the cache is a proof that
   verifies against the verifying key. *)
OnlyVerifiedProofs ==
    /\ \A k \in DOMAIN cache :
          Verify(cache[k].Proof, verifyingKey, PublicOf(cache[k].PublicInputs))
    /\ \A i \in Slots :
          /\ req[i].resp # NoResp =>
                /\ Verify(req[i].resp.Proof, verifyingKey, PublicOf(req[i].resp.PublicInputs))
                /\ Passed(i, "sanity") \/ req[i].stages = HitRun
          /\ req[i].status = 200 => req[i].resp # NoResp
          /\ FailedIn(i, "sanity") => req[i].status = 500 /\ req[i].resp = NoResp

\* a fresh proof has been verified, cached and returned
OnlyVerifiedProofsWitness ==
    \E i \in Slots :
        /\ req[i].pc = "done" /\ req[i].stages = FullRun
        /\ generateCacheKey(req[i].r) \in DOMAIN cache
        /\ cache[generateCacheKey(req[i].r)].Proof = req[i].resp.Proof

-----------------------------------------------------------------------------
(* C3 as stated: a request that passed validation and signature
   pre-verification never fails in proving or in sanity verification. *)
PreChecksImplyProof ==
    \A i \in Slots :
        Passed(i, "preverify") => ~FailedIn(i, "prove") /\ ~FailedIn(i, "sanity")

\* the request's strings are numbers, the amount is sufficient and the
\* payment is not older than maxBlockAge
AmountAndAgeOK(r) ==
    /\ NewWitnessOK(r)
    /\ DecimalValue(r.MinAmount) <= DecimalValue(r.ActualAmount)
    /\ 0 <= r.CurrentTime - r.PaymentTime
    /\ r.CurrentTime - r.PaymentTime <= DecimalValue(r.MaxBlockAge)

(* C3 as amended: a request that passed validation and signature
   pre-verification, whose fields are all decimal numbers with
   minAmount <= actualAmount and 0 <= currentTime - paymentTime <= maxBlockAge,
   never fails in proving, and never fails in sanity verification when the
   verifying key is the counterpart of the proving key. *)
SatisfiablePreCheckedProves ==
    \A i \in Slots :
        Passed(i, "preverify") /\ AmountAndAgeOK(req[i].r) =>
            /\ ~FailedIn(i, "prove")
            /\ verifyingKey = provingKey => ~FailedIn(i, "sanity")

\* such a request has been proved and its proof verified
SatisfiablePreCheckedProvesWitness ==
    \E i \in Slots :
        /\ Passed(i, "preverify") /\ AmountAndAgeOK(req[i].r)
        /\ Passed(i, "prove") /\ Passed(i, "sanity")

-----------------------------------------------------------------------------
(* C4: a request with actualAmount < minAmount is never answered with a
   proof, whatever the cache holds. *)
InsufficientAmountRejected ==
    \A i \in Slots :
        /\ req[i].pc = "done"
        /\ isValidNumeric(req[i].r.MinAmount) /\ isValidNumeric(req[i].r.ActualAmount)
        /\ DecimalValue(req[i].r.ActualAmount) < DecimalValue(req[i].r.MinAmount)
        => req[i].status # 200 /\ req[i].resp = NoResp

-----------------------------------------------------------------------------
(* C5: a request with currentTime - paymentTime >= maxBlockAge, the
   difference equal to maxBlockAge included, is never answered with a proof. *)
StalePaymentRejected ==
    \A i \in Slots :
        /\ req[i].pc = "done"
        /\ isValidNumeric(req[i].r.MaxBlockAge)
        /\ req[i].r.CurrentTime - req[i].r.PaymentTime >= DecimalValue(req[i].r.MaxBlockAge)
        => req[i].status # 200 /\ req[i].resp = NoResp

-----------------------------------------------------------------------------
(* C6: for an identity's first requests, made less than one period after
   its first, the first maxRate Allow calls succeed and the next one is
   denied; and a call made at least one period after a denied call, with no
   call in between, succeeds. *)
BurstThenRecover ==
    \A ip \in IPs :
        /\ \A k \in 1..Len(allowLog[ip]) :
              allowLog[ip][k].t - allowLog[ip][1].t < period =>
                  /\ k <= maxRate => allowLog[ip][k].ok
                  /\ k = maxRate + 1 => ~allowLog[ip][k].ok
        /\ \A k \in 1..(Len(allowLog[ip]) - 1) :
              ~allowLog[ip][k].ok /\ allowLog[ip][k + 1].t - allowLog[ip][k].t >= period
                  => allowLog[ip][k + 1].ok

\* an identity used its burst, was denied, waited one period and was admitted
BurstThenRecoverWitness ==
    \E ip \in IPs :
        /\ Len(allowLog[ip]) = maxRate + 2
        /\ allowLog[ip][maxRate + 1].t = allowLog[ip][1].t
        /\ ~allowLog[ip][maxRate + 1].ok
        /\ allowLog[ip][maxRate + 2].t = allowLog[ip][maxRate + 1].t + period
        /\ allowLog[ip][maxRate + 2].ok

-----------------------------------------------------------------------------
(* C7: no identity is admitted more than maxRate times within any interval
   of one period. *)
AtMostMaxRatePerPeriod ==
    \A ip \in IPs : \A k \in 1..Len(allowLog[ip]) :
        Cardinality({j \in k..Len(allowLog[ip]) :
                        /\ allowLog[ip][j].ok
                        /\ allowLog[ip][j].t - allowLog[ip][k].t < period}) <= maxRate

-----------------------------------------------------------------------------
(* C8: a rate-limit denial is answered 429 and nothing else is; a validation
   or signature pre-verification failure is answered 400; a proving or
   sanity-verification failure is answered 500. *)
StatusClasses ==
    \A i \in Slots :
        req[i].pc = "done" =>
            /\ req[i].status \in {200, 400, 429, 500}
            /\ req[i].status = 429 <=> FailedIn(i, "ratelimit")
            /\ FailedIn(i, "validate") \/ FailedIn(i, "preverify") => req[i].status = 400
            /\ FailedIn(i, "prove") \/ FailedIn(i, "sanity") => req[i].status = 500
            /\ req[i].status = 200 <=> req[i].stages \in {FullRun, HitRun}

\* one request was denied by the rate limiter and another failed in proving
StatusClassesWitness ==
    \E i, j \in Slots :
        /\ FailedIn(i, "ratelimit") /\ req[i].status = 429
        /\ FailedIn(j, "prove") /\ req[j].status = 500

-----------------------------------------------------------------------------
(* C9 as stated: a request that passed validation and signature
   pre-verification and whose witness does not satisfy the circuit is
   answered 400 with the reason "invalid payment proof inputs". *)
UnsatisfiableIsValidationError ==
    \A i \in Slots :
        /\ FailedIn(i, "prove") /\ NewWitnessOK(req[i].r) /\ ~Define(req[i].r)
        => req[i].status = 400 /\ req[i].error = "invalid payment proof inputs"

(* C9 as amended: such a request is answered 500, an internal error, with
   the reason "proof generation failed". *)
UnsatisfiableIsInternalError ==
    \A i \in Slots :
        /\ FailedIn(i, "prove") /\ NewWitnessOK(req[i].r) /\ ~Define(req[i].r)
        => req[i].status = 500 /\ req[i].error = "proof generation failed"

\* a validated, pre-verified request with an unsatisfiable witness was answered
UnsatisfiableIsInternalErrorWitness ==
    \E i \in Slots :
        /\ FailedIn(i, "prove") /\ Passed(i, "preverify")
        /\ NewWitnessOK(req[i].r) /\ ~Define(req[i].r)

-----------------------------------------------------------------------------
\* the cache key of the request a proof was generated for
KeyOfProof(proof) ==
    [sha256 |-> proof.pub[1] \o proof.pub[2] \o proof.pub[3] \o proof.pub[4]]

\* slot i looks its request up in the cache in this step
LookupStep(i) == req[i].pc = "cache" /\ req'[i].pc # "cache"

\* slot i is answered from the cache in this step
HitStep(i) == req[i].pc = "cache" /\ req'[i].pc = "done"

(* C10: a request that finds an entry for its public fields in the cache,
   within the TTL, is answered with exactly the cached proof and public
   inputs, a proof that was generated and verified for the same cache key,
   with generationTimeMs = 0, and runs no signature pre-verification,
   proving, sanity verification or cache store. *)
CacheHitReturnsCachedProof ==
    /\ [](\A i \in Slots :
            req[i].pc = "done" /\ Ran(i, "cache") /\ LastStage(i)[2] # "fail"
              /\ ~Ran(i, "prove") =>
                /\ req[i].status = 200
                /\ req[i].resp.GenerationTime = 0
                /\ req[i].resp.Proof # NoProof
                /\ KeyOfProof(req[i].resp.Proof) = generateCacheKey(req[i].r)
                /\ ~Ran(i, "preverify") /\ ~Ran(i, "sanity") /\ ~Ran(i, "store"))
    /\ [][\A i \in Slots :
            /\ HitStep(i) =>
                /\ generateCacheKey(req[i].r) \in DOMAIN cache
                /\ now - cache[generateCacheKey(req[i].r)].GeneratedAt <= ttl
                /\ req'[i].resp.Proof = cache[generateCacheKey(req[i].r)].Proof
                /\ req'[i].resp.PublicInputs = cache[generateCacheKey(req[i].r)].PublicInputs
            /\ LookupStep(i) /\ generateCacheKey(req[i].r) \in DOMAIN cache
                 /\ now - cache[generateCacheKey(req[i].r)].GeneratedAt <= ttl
               => HitStep(i)]_vars

\* a request with the public fields of a cached proof and other private
\* fields was answered from the cache
CacheHitReturnsCachedProofWitness ==
    \E i \in Slots :
        /\ req[i].pc = "done" /\ req[i].stages = HitRun
        /\ req[i].resp.Proof.pub = PublicWitness(req[i].r)
        /\ req[i].resp.Proof.priv # PrivateWitness(req[i].r)

-----------------------------------------------------------------------------
\* goroutine g finds a live entry in this step of Get
GetHit(g) == gor[g].pc = "lookup" /\ gor'[g].pc = "load"

\* goroutine g finds no live entry in this step of Get
GetMiss(g) == gor[g].pc = "lookup" /\ gor'[g].pc = "unlock"

\* the age of the entry stored under the key of request r
AgeOf(r) == now - cache[generateCacheKey(r)].GeneratedAt

(* C11: Get returns an entry only if, at its expiry check, the entry's age
   since insertion is at most the TTL, and a Get that returns is answered
   with the entry found then; whether the sweep has removed expired entries
   or not, and however full the cache is. *)
GetNeverReturnsExpired ==
    [][\A g \in Gors :
          /\ GetHit(g) => generateCacheKey(gor[g].r) \in DOMAIN cache /\ AgeOf(gor[g].r) <= ttl
          /\ gor[g].pc = "lookup" /\ generateCacheKey(gor[g].r) \in DOMAIN cache
               /\ AgeOf(gor[g].r) > ttl => ~GetHit(g)
          /\ gor'[g].found /\ ~gor[g].found => gor[g].pc = "store"]_vars

\* a Get has missed on an entry older than the TTL that the sweep has not
\* removed, in a full cache
GetNeverReturnsExpiredWitness ==
    \E g \in Gors :
        /\ gor[g].op = "Get" /\ gor[g].pc = "unlock" /\ ~gor[g].found
        /\ generateCacheKey(gor[g].r) \in DOMAIN cache
        /\ AgeOf(gor[g].r) > ttl
        /\ Cardinality(DOMAIN cache) >= cacheMaxSize

-----------------------------------------------------------------------------
(* C12: the number of entries of the cache never exceeds maxSize. *)
CacheSizeBounded == Cardinality(DOMAIN cache) <= cacheMaxSize

-----------------------------------------------------------------------------
\* goroutine g calls Set in this step
SetStep(g) == gor'[g].op = "Set" /\ gor'[g].n = gor[g].n + 1

\* the entries of the least insertion time
Oldest(c) == {k \in DOMAIN c : \A j \in DOMAIN c : c[k].GeneratedAt <= c[j].GeneratedAt}

(* C13: a Set of a new key into a full cache removes exactly one existing
   entry, one of the oldest insertion time; a Set into a cache that is not
   full, or of a key already present, removes no other entry. *)
SetEvictsOldestOnlyWhenFull ==
    [][\A g \in Gors : SetStep(g) =>
          IF /\ Cardinality(DOMAIN cache) >= cacheMaxSize
             /\ generateCacheKey(gor'[g].r) \notin DOMAIN cache
          THEN \E v \in Oldest(cache) :
                   DOMAIN cache' = (DOMAIN cache \ {v}) \cup {generateCacheKey(gor'[g].r)}
          ELSE DOMAIN cache' = DOMAIN cache \cup {generateCacheKey(gor'[g].r)}]_vars

-----------------------------------------------------------------------------
\* the keys whose access counter goroutine g's next step reads
ReadsCounter(g) ==
    CASE gor[g].pc = "load" -> {generateCacheKey(gor[g].r)}
      [] gor[g].pc = "sum" -> DOMAIN cache
      [] OTHER -> {}

\* the keys whose access counter goroutine g's next step writes
WritesCounter(g) ==
    IF gor[g].pc = "store" THEN {generateCacheKey(gor[g].r)} ELSE {}

(* C14: no write to the cache's state overlaps another goroutine's access to
   the same datum: no goroutine is about to write an entry's access counter
   while another is in the middle of reading or writing that counter. *)
CacheWritesExclusive ==
    \A g, h \in Gors :
        g # h => WritesCounter(g) \cap (ReadsCounter(h) \cup WritesCounter(h)) = {}

-----------------------------------------------------------------------------
\* the fields the cache key covers
KeyFields(r) == <<r.MinAmount, r.RecipientKeyX, r.RecipientKeyY, r.MaxBlockAge>>

(* C16: requests that differ in minAmount, the recipient key or maxBlockAge
   have different cache keys: the key of a Get is never that of an entry
   stored for another minAmount, recipient key or maxBlockAge, and a Get is
   answered only with a proof stored for its own. *)
CacheKeyInjective ==
    \A g \in Gors :
        /\ gor[g].op = "Get" /\ generateCacheKey(gor[g].r) \in DOMAIN cache =>
              SubSeq(cache[generateCacheKey(gor[g].r)].Proof.pub, 1, 4) = KeyFields(gor[g].r)
        /\ gor[g].found =>
              SubSeq(gor[g].resp.Proof.pub, 1, 4) = KeyFields(gor[g].r)

-----------------------------------------------------------------------------
\* the public fields of a request
PublicFields(r) == <<r.MinAmount, r.RecipientKeyX, r.RecipientKeyY, r.MaxBlockAge, r.CurrentTime>>

\* the record logProofGeneration emits for the request of slot i
LogRecordOf(i) ==
    logProofGeneration(req[i].ip, req[i].r.MinAmount, req[i].r.ActualAmount,
                       (now - req[i].start) * 1000, req[i].status = 200)

\* slots i and j have answered requests with the same public fields, both
\* from the service's state at their arrival (neither from the cache)
SamePublicClaim(i, j) ==
    /\ i # j /\ req[i].pc = "done" /\ req[j].pc = "done"
    /\ PublicFields(req[i].r) = PublicFields(req[j].r)
    /\ req[i].ip = req[j].ip
    /\ req[i].stages # HitRun /\ req[j].stages # HitRun

\* the cache keys are the same
SameCacheKey(i, j) == generateCacheKey(req[i].r) = generateCacheKey(req[j].r)

\* the persisted request hashes are the same
SameRequestHash(i, j) == generateRequestHash(req[i].r) = generateRequestHash(req[j].r)

\* the log records are the same
SameLogRecord(i, j) == LogRecordOf(i) = LogRecordOf(j)

\* the error messages sent to the client are the same
SameErrorMessage(i, j) == req[i].error = req[j].error

(* C15: two requests with the same public fields that differ in private
   fields only, processed from the same state of the service, have the same
   cache key, the same persisted request hash, the same log record and the
   same client-visible error message. *)
PrivateFieldsWithoutInfluence ==
    \A i, j \in Slots :
        SamePublicClaim(i, j) =>
            /\ SameCacheKey(i, j)
            /\ SameRequestHash(i, j)
            /\ SameLogRecord(i, j)
            /\ SameErrorMessage(i, j)

-----------------------------------------------------------------------------
\* the string fields of a request that hold numbers
NumericFields(r) ==
    <<r.MinAmount, r.ActualAmount, r.MaxBlockAge, r.RecipientKeyX, r.RecipientKeyY,
      r.SenderKeyX, r.SenderKeyY, r.SignatureR8X, r.SignatureR8Y, r.SignatureS>>

(* C17: in every request that passed validation, each numeric string field
   is non-empty, at most 100 characters long and made of ASCII digits only;
   no other request is parsed by the signature pre-verifier. *)
ValidatedFieldsWellFormed ==
    \A i \in Slots :
        Passed(i, "validate") \/ Ran(i, "preverify") =>
            \A k \in 1..Len(NumericFields(req[i].r)) :
                /\ isValidNumeric(NumericFields(req[i].r)[k])
                /\ Len(NumericFields(req[i].r)[k]) <= maxFieldLen

-----------------------------------------------------------------------------
\* the decimal string s stands for a positive integer
Positive(s) == isValidNumeric(s) /\ LessOrEqual(<<"1">>, s)

(* C18: in every request that passed validation, minAmount and actualAmount
   are positive integers, leading zeros or not. *)
ValidatedAmountsPositive ==
    \A i \in Slots :
        Passed(i, "validate") =>
            Positive(req[i].r.MinAmount) /\ Positive(req[i].r.ActualAmount)

-----------------------------------------------------------------------------
\* timestamp x lies in the validator's window around the server clock
InWindow(x) == now - pastWindow <= x /\ x <= now + futureWindow

(* C19: a request passes validation only if currentTime and paymentTime lie
   in [now - 300, now + 60] and paymentTime <= currentTime; a request with
   paymentTime > currentTime never reaches signature pre-verification or
   proving. *)
ValidatedTimesInWindow ==
    \A i \in Slots :
        /\ Passed(i, "validate") =>
              /\ InWindow(req[i].r.CurrentTime) /\ InWindow(req[i].r.PaymentTime)
              /\ req[i].r.PaymentTime <= req[i].r.CurrentTime
        /\ req[i].r.PaymentTime > req[i].r.CurrentTime =>
              ~Ran(i, "cache") /\ ~Ran(i, "preverify") /\ ~Ran(i, "prove")

\* a request whose timestamps lie in the window, with paymentTime after
\* currentTime, was rejected by the validator for that
ValidatedTimesInWindowWitness ==
    \E i \in Slots :
        /\ FailedIn(i, "validate")
        /\ InWindow(req[i].r.CurrentTime) /\ InWindow(req[i].r.PaymentTime)
        /\ req[i].r.PaymentTime > req[i].r.CurrentTime
        /\ req[i].status = 400 /\ req[i].error = "paymentTime cannot be in the future"

-----------------------------------------------------------------------------
\* the decimal string s stands for an integer below 2^64
FitsComparator(s) == isValidNumeric(s) /\ ~LessOrEqual(TwoTo64, s)

(* C20: in every request that reaches witness construction, minAmount,
   actualAmount and maxBlockAge are below 2^64; a request with a larger value
   in one of them does not pass validation. *)
ValidatedValuesFitComparators ==
    \A i \in Slots :
        Passed(i, "validate") \/ Ran(i, "prove") =>
            /\ FitsComparator(req[i].r.MinAmount)
            /\ FitsComparator(req[i].r.ActualAmount)
            /\ FitsComparator(req[i].r.MaxBlockAge)

-----------------------------------------------------------------------------
\* the string fields the validator requires
RequiredFields(r) ==
    <<r.MinAmount, r.RecipientKeyX, r.RecipientKeyY, r.ActualAmount, r.SenderKeyX,
      r.SenderKeyY, r.SignatureR8X, r.SignatureR8Y, r.SignatureS>>

\* the place in the documented order of the first check request r fails at
\* server time t: 1 presence, 2 numeric format and length, 3 positive
\* amounts, 4 currentTime window, 5 paymentTime window, 6 paymentTime <=
\* currentTime; 0 when it fails none
DocumentedCheck(r, t) ==
    IF \E k \in 1..Len(RequiredFields(r)) : RequiredFields(r)[k] = <<>> THEN 1
    ELSE IF \E k \in 1..Len(NumericFields(r)) :
                \/ ~isValidNumeric(NumericFields(r)[k])
                \/ Len(NumericFields(r)[k]) > maxFieldLen THEN 2
    ELSE IF r.MinAmount = <<"0">> \/ r.ActualAmount = <<"0">> THEN 3
    ELSE IF r.CurrentTime < t - pastWindow \/ r.CurrentTime > t + futureWindow THEN 4
    ELSE IF r.PaymentTime < t - pastWindow \/ r.PaymentTime > t + futureWindow THEN 5
    ELSE IF r.PaymentTime > r.CurrentTime THEN 6
    ELSE 0

\* the place in that order of the check an error message of the validator
\* belongs to
ErrorGroup(msg) ==
    IF msg = "" THEN 0
    ELSE IF msg \in {"minAmount is required", "recipientKeyX is required",
                     "recipientKeyY is required", "actualAmount is required",
                     "senderKeyX is required", "senderKeyY is required",
                     "signatureR8x is required", "signatureR8y is required",
                     "signatureS is required"} THEN 1
    ELSE IF msg \in {"minAmount too long (max 100 chars)",
                     "recipientKeyX too long (max 100 chars)",
                     "recipientKeyY too long (max 100 chars)",
                     "minAmount must be numeric", "actualAmount must be numeric",
                     "maxBlockAge must be numeric"} THEN 2
    ELSE IF msg \in {"minAmount must be positive", "actualAmount must be positive"} THEN 3
    ELSE IF msg = "currentTime must be within last 5 minutes" THEN 4
    ELSE IF msg = "paymentTime must be within last 5 minutes" THEN 5
    ELSE IF msg = "paymentTime cannot be in the future" THEN 6
    ELSE 7

(* C21: the validator answers a request that fails several checks with the
   error of the earliest check it fails in the documented order (presence;
   numeric format and length; positive amounts; currentTime window;
   paymentTime window; paymentTime <= currentTime), and passes a request only
   if it fails none. *)
EarliestDocumentedCheckReported ==
    \A i \in Slots :
        /\ BindJSON(req[i].r) /\ FailedIn(i, "validate") =>
              ErrorGroup(req[i].error) = DocumentedCheck(req[i].r, now)
        /\ Passed(i, "validate") => DocumentedCheck(req[i].r, now) = 0

-----------------------------------------------------------------------------
\* a field of request r is a non-numeric string (a negative-looking one
\* included), an oversized string, missing, or of the wrong JSON type
Malformed(r) ==
    \/ ~r.jsonOK
    \/ \E k \in 1..Len(NumericFields(r)) :
          \/ ~isValidNumeric(NumericFields(r)[k])
          \/ Len(NumericFields(r)[k]) > maxFieldLen

(* C22: a request with a malformed field (non-numeric, oversized,
   negative-looking, missing, or of the wrong JSON type) is never answered
   with 200 and never with a 5xx status. *)
MalformedNeverSucceedsNorFails5xx ==
    \A i \in Slots :
        req[i].pc = "done" /\ Malformed(req[i].r) =>
            req[i].status # 200 /\ req[i].status < 500

-----------------------------------------------------------------------------
\* the default deadline of a request, in seconds
requestTimeout == 30

\* the proving computation of slot i completed after the request's deadline
ProvedLate(i) ==
    /\ req[i].pc \in {"sanity", "store", "respond"}
    /\ req[i].proved - req[i].start > requestTimeout

(* C23: every request has a deadline; a proof whose computation completed
   after the deadline of its request is neither stored in the proof cache nor
   returned to the client with a 200. *)
LateProofNeitherReturnedNorCached ==
    [][\A i \in Slots :
          ProvedLate(i) =>
              /\ req[i].pc = "store" /\ req'[i].pc # "store" => cache' = cache
              /\ req'[i].status # 200]_vars

-----------------------------------------------------------------------------
\* the public-input vector of the request of slot i, as a response carries it
OwnPublicInputs(i) ==
    <<req[i].r.MinAmount, req[i].r.RecipientKeyX, req[i].r.RecipientKeyY,
      req[i].r.MaxBlockAge, Sprintf(req[i].r.CurrentTime)>>

\* the requests being processed with the one of slot i have other public fields
DistinctInputs(i) ==
    \A j \in Slots \ {i} :
        req[j].pc # "idle" => PublicFields(req[j].r) # PublicFields(req[i].r)

(* C25: of requests with pairwise distinct valid inputs processed concurrently,
   each successful response carries the public-input vector of its own
   request and a proof made for those public inputs, never those of another
   request. *)
ResponseBuiltFromOwnFields ==
    \A i \in Slots :
        (/\ req[i].pc = "done" /\ req[i].status = 200
         /\ Define(req[i].r) /\ DistinctInputs(i))
        => (/\ req[i].resp.PublicInputs = OwnPublicInputs(i)
            /\ req[i].resp.Proof.pub = PublicWitness(req[i].r))

-----------------------------------------------------------------------------
\* every bucket holds between 0 and maxRate tokens
BucketsWithinCapacity ==
    \A ip \in DOMAIN buckets : 0 <= buckets[ip].tokens /\ buckets[ip].tokens <= maxRate

\* a step that brings a bucket into existence is a request of the bucket's
\* identity, which finds maxRate tokens: it is allowed and leaves maxRate - 1
BucketCreatedFull ==
    \A ip \in DOMAIN buckets' \ DOMAIN buckets :
        /\ allowLog'[ip] = Append(allowLog[ip], [t |-> now, ok |-> TRUE, fresh |-> TRUE])
        /\ buckets'[ip] = [tokens |-> maxRate - 1, lastRefill |-> now]
        /\ DOMAIN buckets' = DOMAIN buckets \cup {ip}

(* C26: in every reachable state each rate-limit bucket holds between 0 and
   maxRate tokens, and a bucket comes into existence only through a request
   of its identity that finds no bucket, holding maxRate tokens before that
   request is charged. *)
BucketsBoundedAndCreatedFull ==
    []BucketsWithinCapacity /\ [][BucketCreatedFull]_vars

\* one identity has used up its bucket and another has made its first
\* request, later
BucketsBoundedAndCreatedFullWitness ==
    \E a, b \in IPs :
        /\ a \in DOMAIN buckets /\ buckets[a].tokens = 0
        /\ b \in DOMAIN buckets /\ buckets[b].tokens = maxRate - 1
        /\ buckets[b].lastRefill > Epoch /\ Len(allowLog[b]) = 1

-----------------------------------------------------------------------------
(* C27: the proving key and the verifying key (and the constraint system,
   the operator Define) are assigned by the initialization that precedes the
   first request, and no step of a request handler or of a background task
   writes them afterwards. *)
KeysWrittenOnlyAtStartup ==
    [][provingKey' = provingKey /\ verifyingKey' = verifyingKey]_vars

\* a request has been proved and answered and the cache sweep has become due,
\* with the keys of the initialization
KeysWrittenOnlyAtStartupWitness ==
    /\ \E i \in Slots : req[i].pc = "done" /\ req[i].status = 200 /\ req[i].stages = FullRun
    /\ now >= Epoch + cacheSweepInterval
    /\ provingKey = "setup1" /\ verifyingKey = "setup1"

-----------------------------------------------------------------------------
\* b to the k
RECURSIVE Pow(_, _)
Pow(b, k) == IF k = 0 THEN 1 ELSE b * Pow(b, k - 1)

\* the wait after the k-th failure: baseDelay * backoffMultiplier^(k - 1),
\* capped at maxDelay
BackoffDelay(config, k) ==
    Min(config.baseDelay * Pow(config.backoffMultiplier, k - 1), config.maxDelay)

(* C29: retryWithBackoff invokes fn at most maxAttempts times; it returns on
   the first successful invocation without invoking fn again; the wait after
   the k-th failure is baseDelay * backoffMultiplier^(k-1) capped at maxDelay;
   there is a wait between consecutive attempts and none after the final
   one; and it throws only after maxAttempts failed invocations. *)
RetryBackoffContract ==
    /\ retry.calls <= retry.config.maxAttempts
    /\ retry.pc = "returned" => retry.calls = retry.failures + 1
    /\ \A k \in 1..Len(retry.waits) : retry.waits[k] = BackoffDelay(retry.config, k)
    /\ retry.pc = "loop" => Len(retry.waits) = retry.failures
                               \/ (retry.attempt > retry.config.maxAttempts
                                      /\ Len(retry.waits) = retry.failures - 1)
    /\ retry.pc = "thrown" =>
          /\ retry.failures = retry.config.maxAttempts
          /\ retry.calls = retry.config.maxAttempts
          /\ retry.config.maxAttempts > 0 => Len(retry.waits) = retry.config.maxAttempts - 1

-----------------------------------------------------------------------------
\* caller c calls execute in this step
Executes(c) == callers'[c].n = callers[c].n + 1

\* the call of c that ran as the HALF_OPEN probe ends in this step with result r
ProbeEnds(c, r) ==
    /\ callers[c].pc = "running" /\ callers[c].probe
    /\ callers'[c].pc = "idle" /\ callers'[c].result = r

\* the time since the last recorded failure
SinceLastFailure == now - breaker.lastFailureTime

(* C30: when the recorded failures reach the threshold the breaker is OPEN;
   while it is OPEN and no more than retryAfter has elapsed since the last
   failure, execute rejects without invoking the wrapped function; after
   retryAfter has elapsed the next execute runs as a HALF_OPEN probe; the
   probe's success closes the breaker and resets the failure count to 0, and
   its failure returns the breaker to OPEN. *)
BreakerOpensRejectsAndProbes ==
    [][\A c \in Callers :
          /\ breaker'.failureCount > breaker.failureCount
                /\ breaker'.failureCount >= threshold
             => breaker'.state = "OPEN"
          /\ Executes(c) /\ breaker.state = "OPEN" /\ SinceLastFailure <= retryAfter
             => /\ callers'[c].pc = "idle" /\ callers'[c].result = "rejected"
                /\ breaker' = breaker
          /\ Executes(c) /\ breaker.state = "OPEN" /\ SinceLastFailure > retryAfter
             => /\ callers'[c].pc = "running" /\ callers'[c].probe
                /\ breaker'.state = "HALF_OPEN"
          /\ ProbeEnds(c, "ok")
             => breaker'.state = "CLOSED" /\ breaker'.failureCount = 0
          /\ ProbeEnds(c, "error")
             => breaker'.state = "OPEN"]_vars

-----------------------------------------------------------------------------
(* C24: serving GET /cache/stats leaves the service state unchanged: the
   cache with its entries' metadata and every client's rate-limit bucket
   (tokens, last-refill time, existence). *)
CacheStatsChangesNothing ==
    [][\A ip \in IPs : CacheStatsRequest(ip) => cache' = cache /\ buckets' = buckets]_vars

-----------------------------------------------------------------------------
\* the one Authorization header that carries the configured key
Authorized(i) == req[i].auth = BearerPrefix \o apiKey

(* C28: when an API key is configured, a generate-proof request reaches
   validation and proof generation only if its Authorization header is
   "Bearer " followed by the key; every other request is answered 401 and
   goes no further. *)
OnlyAuthorizedRequestsProceed ==
    apiKey # <<>> =>
        \A i \in Slots :
            /\ Ran(i, "validate") \/ Ran(i, "prove") => Authorized(i)
            /\ req[i].pc = "done" /\ ~Authorized(i) => req[i].status = 401

-----------------------------------------------------------------------------
(* C33: on every cache hit the public-input vector returned to the client is
   that of the requesting request (minAmount, recipientKeyX, recipientKeyY,
   maxBlockAge, currentTime): a hit never returns a proof bound to another
   currentTime or recipient. *)
HitReturnsOwnPublicInputs ==
    \A i \in Slots :
        req[i].pc = "done" /\ req[i].stages = HitRun =>
            /\ req[i].resp.PublicInputs = OwnPublicInputs(i)
            /\ req[i].resp.Proof.pub = PublicWitness(req[i].r)

-----------------------------------------------------------------------------
\* slots i and j hold proofs they have generated for the same cache key and
\* neither has stored its proof yet
BothProved(i, j) ==
    /\ i # j /\ SameCacheKey(i, j)
    /\ req[i].pc \in {"sanity", "store"} /\ req[j].pc \in {"sanity", "store"}

(* C34: under any interleaving of concurrent requests that share a cache
   key, proving is performed at most once for that key while a valid entry
   exists or is being produced: two concurrent requests for the same public
   claim never both run the prover. *)
ProvedAtMostOncePerKey ==
    \A i, j \in Slots : ~BothProved(i, j)

\* a valid entry for the request of slot i is in the cache
ValidEntryFor(i) ==
    /\ generateCacheKey(req[i].r) \in DOMAIN cache
    /\ now - cache[generateCacheKey(req[i].r)].GeneratedAt <= ttl

(* C34, amended: a request that looks the cache up while a valid entry for
   its key exists does not run the prover, and a request runs the prover only
   after a miss; requests that look up before the entry is stored each run
   the prover. *)
NoProvingWhileEntryValid ==
    /\ [](\A i \in Slots :
            Ran(i, "preverify") \/ Ran(i, "prove") =>
                \E k \in 1..Len(req[i].stages) : req[i].stages[k] = <<"cache", "miss">>)
    /\ [][\A i \in Slots :
            LookupStep(i) /\ ValidEntryFor(i) =>
                req'[i].pc \notin {"preverify", "prove", "sanity", "store"}]_vars

\* one request has proved and stored, and another with the same key, looking
\* up afterwards, was answered from the cache without proving
NoProvingWhileEntryValidWitness ==
    \E i, j \in Slots :
        /\ i # j /\ SameCacheKey(i, j)
        /\ Passed(j, "store")
        /\ req[i].pc = "done" /\ req[i].stages = HitRun

-----------------------------------------------------------------------------
\* A rate limiter that never purges, run on the calls of log from the k-th
\* on with bucket b: Allow's lazy refill and charge at the time of each call.
\* oks lists the results of the calls and bucket is the bucket left.
RECURSIVE NeverPurged(_, _, _)
NeverPurged(log, k, b) ==
    IF k > Len(log) THEN [oks |-> <<>>, bucket |-> b]
    ELSE LET add == ((log[k].t - b.lastRefill) \div period) * maxRate
             r == IF add > 0
                  THEN [tokens |-> Min(b.tokens + add, maxRate), lastRefill |-> log[k].t]
                  ELSE b
             rest == NeverPurged(log, k + 1,
                                 IF r.tokens > 0 THEN [r EXCEPT !.tokens = @ - 1] ELSE r)
         IN  [oks |-> <<r.tokens > 0>> \o rest.oks, bucket |-> rest.bucket]

\* that rate limiter on all the calls of log, the first of which creates the
\* bucket
NeverPurgedRun(log) == NeverPurged(log, 1, [tokens |-> maxRate, lastRefill |-> log[1].t])

(* C37: purging idle buckets never changes an admission decision: every
   Allow call returns what it returns in a rate limiter that never purges,
   and every bucket that exists equals the bucket of that rate limiter. *)
PurgeKeepsDecisions ==
    \A ip \in IPs :
        allowLog[ip] # <<>> =>
            LET run == NeverPurgedRun(allowLog[ip])
            IN  /\ \A k \in 1..Len(allowLog[ip]) : allowLog[ip][k].ok = run.oks[k]
                /\ ip \in DOMAIN buckets => buckets[ip] = run.bucket

\* an identity that had used up its tokens was purged, and its next request
\* found no bucket and was admitted
PurgeKeepsDecisionsWitness ==
    \E ip \in IPs : \E k \in 2..Len(allowLog[ip]) :
        /\ allowLog[ip][k].fresh /\ allowLog[ip][k].ok
        /\ ~allowLog[ip][k - 1].ok

-----------------------------------------------------------------------------
\* the call of c ends in this step with result r
CallEnds(c, r) ==
    callers[c].pc = "running" /\ callers'[c].pc = "idle" /\ callers'[c].result = r

(* C38: the breaker opens only after threshold consecutive failures: a
   successful call while the breaker is CLOSED resets the failure count, so
   failures separated by successes never open it. *)
OpensOnlyOnConsecutiveFailures ==
    [][/\ breaker.state = "CLOSED" /\ breaker'.state = "OPEN" => breaker'.run >= threshold
       /\ \A c \in Callers :
             CallEnds(c, "ok") /\ breaker.state = "CLOSED" => breaker'.failureCount = 0]_vars

\* ---------------------------------------------------------------------
\* C40: every request to the prover receives exactly one response: on
\* every path through rateLimitMiddleware and generateProofHandler one and
\* only one response has been written when the handler has returned, none
\* before, and the handler terminates: each step moves the request to a
\* later stage of the pipeline and a request in flight can always take
\* its next step.
HandlerStages ==
    <<"ratelimit", "validate", "cache", "preverify", "prove", "sanity", "store",
      "respond", "done">>

HandlerRank(pc) == CHOOSE k \in 1..Len(HandlerStages) : HandlerStages[k] = pc

InFlight(i) == req[i].pc \notin {"idle", "done"}

HandlerStep(i) ==
    \/ RateLimitStep(i)
    \/ ValidateStep(i)
    \/ CacheLookupStep(i)
    \/ PreVerifyStep(i)
    \/ ProveStep(i)
    \/ SanityStep(i)
    \/ StoreStep(i)
    \/ RespondStep(i)

ExactlyOneResponse ==
    /\ [](\A i \in Slots :
            /\ req[i].written = (IF req[i].pc = "done" THEN 1 ELSE 0)
            /\ (req[i].pc = "done") = (req[i].status # 0)
            /\ InFlight(i) => ENABLED HandlerStep(i))
    /\ [][\A i \in Slots :
            InFlight(i) /\ req'[i] # req[i]
               => HandlerRank(req'[i].pc) > HandlerRank(req[i].pc)]_vars

\* one request has been answered 429 and another 200, each exactly once
ExactlyOneResponseWitness ==
    \E i, j \in Slots :
        /\ req[i].pc = "done" /\ req[i].status = 429 /\ req[i].written = 1
        /\ req[j].pc = "done" /\ req[j].status = 200 /\ req[j].written = 1

\* ---------------------------------------------------------------------
\* C39: GetProof(req) returns a proof only if that proof was stored by
\* StoreProof for a request with identical fields and has not expired, and
\* two requests that differ in any field never share a request hash.
GetProofReturnsOwnProof ==
    /\ [](dbGot.found =>
             /\ dbGot.storedFor = dbGot.r
             /\ dbGot.resp.Proof = ResponseFor(dbGot.r).Proof)
    /\ [][\A r \in DbRequests :
             GetProof(r) /\ dbGot'.found => dbGot'.expires_at > now]_vars
    /\ [][\A r \in DbRequests, ip \in Clients, d \in DbTtls, h \in DOMAIN proofs :
             StoreProof(r, ResponseFor(r), ip, d) /\ proofs[h].storedFor # r
                => proofs'[h] = proofs[h]]_vars

\* ---------------------------------------------------------------------
\* C31: getConnection returns a connection to an endpoint that passed its
\* health check during that call whenever at least one configured endpoint
\* is healthy at the call, an endpoint that failed a check earlier and has
\* recovered included.
GetConnectionReturnsCheckedEndpoint ==
    rpc.calls > 0 /\ rpc.got.healthyThen # {}
        => /\ rpc.got.endpoint \in rpc.got.passed
           /\ rpc.got.endpoint \in rpc.got.healthyThen

\* ---------------------------------------------------------------------
\* C32: the middleware calls next only if both proof headers are present
\* and proof verification returned valid; a request with a missing header,
\* an unparsable proof or public inputs, or a proof that fails verification
\* is answered 402 and never reaches the handler.
MwBeingAnswered == mw.pc \in {"handler", "done"}

\* the request in the middleware carries no proof that verifies
MwUnpaid ==
    \/ ~mw.proof.present \/ ~mw.publicInputs.present
    \/ ~mw.proof.parses \/ ~mw.publicInputs.parses
    \/ ~Verify(mw.proof.data, mw.vkey, publicSignals(mw.publicInputs.data))

NextOnlyAfterValidProof ==
    /\ MwBeingAnswered /\ mw.nextCalls > 0
          => /\ mw.proof.present /\ mw.publicInputs.present
             /\ mw.result.valid
             /\ ~MwUnpaid
    /\ MwBeingAnswered /\ MwUnpaid
          => /\ mw.pc = "done" /\ mw.status = 402
             /\ mw.nextCalls = 0
    /\ mw.nextCalls <= 1

\* a request with a verifying proof has reached the handler and been served
NextOnlyAfterValidProofWitness ==
    /\ mw.pc = "done" /\ mw.status = 200 /\ mw.nextCalls = 1
    /\ mw.served = MaxMwRequests

\* ---------------------------------------------------------------------
\* C35: one call of ZKPaymentClient.request causes at most one payment
\* transfer to be submitted on-chain, also when sending or confirming
\* reports an error after the transfer has landed.
AtMostOneTransferPerRequest == client.transfers <= 1

\* ---------------------------------------------------------------------
\* C36: the middleware grants access to a protected route only for a proof
\* whose public inputs name the server's own recipient key and a minAmount
\* of at least the route's price.
\* what the server sells for: its recipient key and the price of the route
ServerTerms == [recipientKeyX |-> Str(7), recipientKeyY |-> Str(8), minAmount |-> 2]

AccessOnlyOnServerTerms ==
    MwBeingAnswered /\ mw.nextCalls > 0
        => /\ mw.publicInputs.data.recipientKeyX = ServerTerms.recipientKeyX
           /\ mw.publicInputs.data.recipientKeyY = ServerTerms.recipientKeyY
           /\ DecimalValue(mw.publicInputs.data.minAmount) >= ServerTerms.minAmount

=============================================================================
